---- MODULE Spec2Model ----
(***************************************************************************)
(* A model of the request-dispatch core of suonanjiexi/cyber: the prefix   *)
(* tree router (StandardRouter) and the Timeout middleware running under   *)
(* the Recovery middleware.  Strings are sequences of one-character        *)
(* strings, so that normalisation, splitting and the ':' / '*' tests are   *)
(* computed as the code computes them.                                     *)
(***************************************************************************)
EXTENDS Integers, Sequences, FiniteSets, TLC

VARIABLES
    trees,        \* StandardRouter.trees: method -> trie (node path -> node)
    routes,       \* history of the AddRoute calls made so far
    req,          \* the request of the Context last handed to HandleRequest
    c_Params,     \* Context.Params of that Context
    handled,      \* the handler HandleRequest invoked on it (Nil: none)
    found         \* the value HandleRequest returned

routerVars == <<trees, routes, req, c_Params, handled, found>>

VARIABLES
    now,          \* the clock
    tokens,       \* the context.Context values: 0 is r.Context(), a > 0 the
                  \* token Timeout created for attempt a
    c_ctx,        \* Context.ctx: the token GetContext returns
    retry,        \* Timeout: var retry
    timeout,      \* Timeout: timeout
    pc,           \* Timeout: "loop", "select" or "returned"
    att,          \* the attempt goroutines launched, in launch order
    writes,       \* the writes made to c.Writer, in order
    handlerKind,  \* what the wrapped handler does: "returns", "never", "panics"
    recoveryInner \* TRUE: Timeout(Recovery(h)); FALSE: Recovery(Timeout(h))

timeoutVars == <<now, tokens, c_ctx, retry, timeout, pc, att, writes,
                 handlerKind, recoveryInner>>

VARIABLES
    heap,         \* the backing arrays of the []Middleware slices, by array id
    mm,           \* the MiddlewareManager
    uses,         \* history of the UseGlobal / UseGroup / UseRoute calls
    resolved,     \* the chains GetMiddlewareChain returned and what running
                  \* the handlers ApplyMiddleware built from them did
    growth        \* spare capacity the runtime gives an array that append grows

chainVars == <<heap, mm, uses, resolved, growth>>

VARIABLES
    dbl           \* a call of doubleTimeout: its argument and its result

fnVars == <<dbl>>

VARIABLES
    keys,         \* Context.keys: key -> the two words of the interface value
    mutex,        \* Context.mutex: the writer holding it and the readers
    gor,          \* the goroutines calling Set or Get on the Context
    lockLog,      \* the Set goroutines in the order they took the lock
    got           \* the last call of GetString / GetInt / GetBool

ctxVars == <<keys, mutex, gor, lockLog, got>>

VARIABLES
    buckets,      \* rateLimiterStore.buckets: client IP -> *TokenBucket
    tb,           \* the TokenBucket objects made so far, by address
    lreq,         \* the requests in the RateLimiter middleware
    storeLog,     \* history of the assignments to rateLimiterStore.buckets
    lclock        \* time.Now(), in seconds

limiterVars == <<buckets, tb, lreq, storeLog, lclock>>

VARIABLES
    app_middlewares,  \* App.middlewares
    mux,              \* the patterns registered by App.HandleFunc, each with
                      \* the finalHandler its closure holds
    served            \* the last call of a handler that ApplyMiddleware or
                      \* App.HandleFunc built

appVars == <<app_middlewares, mux, served>>

VARIABLES
    rw,           \* c.Writer: the http.ResponseWriter of one request
    c_StatusCode, \* Context.StatusCode
    helperLog     \* history of the response helpers called on the Context

respVars == <<rw, c_StatusCode, helperLog>>

VARIABLES
    observed      \* the last read of the Context's token by a handler

readVars == <<observed>>

VARIABLES
    bucket,       \* one TokenBucket
    bclock,       \* time.Now(), in seconds
    taken         \* the last call of Take on the bucket

bucketVars == <<bucket, bclock, taken>>

VARIABLES
    items,        \* MemoryStore.items: key -> *CacheItem
    sgor,         \* the goroutines calling Get, Set or Delete on the store
    sclock,       \* time.Now(), in units of the TTL's granularity
    made,         \* the number of CacheItems made so far
    removed       \* the last deletion performed by Get

storeVars == <<items, sgor, sclock, made, removed>>

VARIABLES
    cpc,          \* where the request is in the ResponseCache middleware
    creq,         \* the number of requests that entered the middleware
    rec,          \* the ResponseRecorder of the request: StatusCode, Body
    cache,        \* config.Store: the CacheItem under the request's key
    headerCalls   \* calls of WriteHeader that reached the request's
                  \* underlying writer

cacheVars == <<cpc, creq, rec, cache, headerCalls>>

vars == <<routerVars, timeoutVars, chainVars, fnVars, ctxVars, limiterVars,
          appVars,
      respVars,
      readVars,
      bucketVars,
      storeVars,
      cacheVars>>

\* what the actions of one component leave alone
notRouterVars ==
    <<timeoutVars, chainVars, fnVars, ctxVars, limiterVars, appVars,
      respVars,
      readVars,
      bucketVars,
      storeVars,
      cacheVars>>
notTimeoutVars ==
    <<routerVars, chainVars, fnVars, ctxVars, limiterVars, appVars,
      respVars,
      readVars,
      bucketVars,
      storeVars,
      cacheVars>>
notChainVars ==
    <<routerVars, timeoutVars, fnVars, ctxVars, limiterVars, appVars,
      respVars,
      readVars,
      bucketVars,
      storeVars,
      cacheVars>>
notFnVars ==
    <<routerVars, timeoutVars, chainVars, ctxVars, limiterVars, appVars,
      respVars,
      readVars,
      bucketVars,
      storeVars,
      cacheVars>>
notCtxVars ==
    <<routerVars, timeoutVars, chainVars, fnVars, limiterVars, appVars,
      respVars,
      readVars,
      bucketVars,
      storeVars,
      cacheVars>>
notLimiterVars ==
    <<routerVars, timeoutVars, chainVars, fnVars, ctxVars, appVars,
      respVars,
      readVars,
      bucketVars,
      storeVars,
      cacheVars>>
notAppVars ==
    <<routerVars, timeoutVars, chainVars, fnVars, ctxVars, limiterVars,
      respVars,
      readVars,
      bucketVars,
      storeVars,
      cacheVars>>
notRespVars ==
    <<routerVars, timeoutVars, chainVars, fnVars, ctxVars, limiterVars, appVars,
      readVars,
      bucketVars,
      storeVars,
      cacheVars>>
notReadVars ==
    <<routerVars, timeoutVars, chainVars, fnVars, ctxVars, limiterVars, appVars, respVars,
      bucketVars,
      storeVars,
      cacheVars>>
notBucketVars ==
    <<routerVars, timeoutVars, chainVars, fnVars, ctxVars, limiterVars, appVars, respVars, readVars,
      storeVars,
      cacheVars>>
notStoreVars ==
    <<routerVars, timeoutVars, chainVars, fnVars, ctxVars, limiterVars, appVars, respVars, readVars, bucketVars,
      cacheVars>>
notCacheVars ==
    <<routerVars, timeoutVars, chainVars, fnVars, ctxVars, limiterVars, appVars, respVars, readVars, bucketVars, storeVars>>

\* what the ResponseCache middleware, which writes to rw, leaves alone
notCacheRespVars ==
    <<routerVars, timeoutVars, chainVars, fnVars, ctxVars, limiterVars, appVars,
      readVars, bucketVars, storeVars>>

----------------------------------------------------------------------------
(* Bounds *)

MaxSegs    == 4      \* pattern segments registered per behaviour, in total
MaxPathLen == 2      \* segments in a request path
MaxRawSegs == 2      \* pattern segments registered per behaviour of SpecNorm
MaxMethodSegs == 2   \* pattern segments registered per behaviour of SpecMethods
MaxCalls   == 4      \* calls of the MiddlewareManager per behaviour
MaxTimeoutArg == 60  \* largest argument given to doubleTimeout, in seconds
MaxGoroutines == 3   \* goroutines calling Set and Get on one Context
MaxLimiterReqs == 3  \* requests in the RateLimiter middleware
MaxLimiterTime == 1  \* seconds the rate limiter's clock advances
MaxHelperCalls == 3  \* response helpers called on one Context
MaxCapacity == 2     \* largest capacity of the TokenBucket of SpecBucket
MaxRate == 2         \* largest refill rate of that bucket, tokens per second
MaxBucketTime == 2   \* seconds that bucket's clock advances
MaxStoreGoroutines == 3  \* goroutines calling the MemoryStore
MaxStoreTime == 2    \* ticks the MemoryStore's clock advances
MaxChunks == 2       \* Write calls of a handler behind the response cache
MaxCacheRequests == 3  \* requests passing through the response cache

Nil == 0             \* the nil HandlerFunc

Methods  == {"GET"}
PatSegs  == {<<"a">>, <<"b">>, <<":", "x">>, <<":", "y">>, <<"*">>}
PathSegs == {<<"a">>, <<"b">>}

SeqsUpTo(S, n) == UNION {[1..k -> S] : k \in 0..n}

RECURSIVE JoinSegs(_)
JoinSegs(segs) ==
    IF segs = <<>> THEN <<>>
    ELSE <<"/">> \o Head(segs) \o JoinSegs(Tail(segs))

\* the string "/s1/s2/.../sn"; "/" for no segments
PathOf(segs) == IF segs = <<>> THEN <<"/">> ELSE JoinSegs(segs)

----------------------------------------------------------------------------
(* package strings *)

HasPrefix(s, p) == Len(s) >= Len(p) /\ SubSeq(s, 1, Len(p)) = p

HasSuffix(s, p) == Len(s) >= Len(p) /\ SubSeq(s, Len(s) - Len(p) + 1, Len(s)) = p

TrimPrefix(s, p) == IF HasPrefix(s, p) THEN SubSeq(s, Len(p) + 1, Len(s)) ELSE s

RECURSIVE Split(_)
Split(s) ==
    IF \A i \in 1..Len(s) : s[i] # "/" THEN <<s>>
    ELSE LET i == CHOOSE k \in 1..Len(s) :
                      s[k] = "/" /\ \A j \in 1..(k - 1) : s[j] # "/"
         IN  <<SubSeq(s, 1, i - 1)>> \o Split(SubSeq(s, i + 1, Len(s)))

----------------------------------------------------------------------------
(* The router: src/example/main.go, package cyber *)

\* A trie is a function from node paths (the sequence of children keys from
\* the root) to nodes; node.children[k] exists iff Append(path, k) is in
\* the domain.
newNode ==
    [handler |-> Nil, pattern |-> <<>>, isParameter |-> FALSE,
     isWildcard |-> FALSE, paramName |-> <<>>]

NewRouter == <<>>

newTrie == (<<>> :> newNode)

normalize(pattern) ==
    LET p1 == IF ~HasPrefix(pattern, <<"/">>) THEN <<"/">> \o pattern ELSE pattern
    IN  IF Len(p1) > 1 /\ HasSuffix(p1, <<"/">>)
        THEN SubSeq(p1, 1, Len(p1) - 1) ELSE p1

\* the request side's own copy of the normalisation, without the removal
\* of the trailing slash
normalizePathKeepSlash(path) ==
    IF ~HasPrefix(path, <<"/">>) THEN <<"/">> \o path ELSE path

\* HandleRequest's copy of the normalisation
normalizePath(path) ==
    LET p1 == IF ~HasPrefix(path, <<"/">>) THEN <<"/">> \o path ELSE path
    IN  IF Len(p1) > 1 /\ HasSuffix(p1, <<"/">>)
        THEN SubSeq(p1, 1, Len(p1) - 1) ELSE p1

splitParts(pattern) ==
    LET parts == Split(pattern)
    IN  IF parts[1] = <<>> THEN Tail(parts) ELSE parts

\* AddRoute's loop keeping the handler a node already has
RECURSIVE insertPartsKeepFirst(_, _, _, _, _, _)
insertPartsKeepFirst(t, current, parts, i, pattern, handler) ==
    IF i > Len(parts) THEN t
    ELSE IF parts[i] = <<>>
         THEN insertPartsKeepFirst(t, current, parts, i + 1, pattern, handler)
    ELSE LET isParameter == HasPrefix(parts[i], <<":">>)
             isWildcard  == parts[i] = <<"*">>
             paramName   == IF isParameter THEN TrimPrefix(parts[i], <<":">>) ELSE <<>>
             part        == IF isParameter THEN <<":">> ELSE parts[i]
             child       == Append(current, part)
             t1 == IF child \in DOMAIN t THEN t
                   ELSE t @@ (child :> [newNode EXCEPT !.isParameter = isParameter,
                                                       !.isWildcard = isWildcard,
                                                       !.paramName = paramName])
             t2 == IF i = Len(parts) /\ t1[child].handler = Nil
                   THEN [t1 EXCEPT ![child].handler = handler,
                                   ![child].pattern = pattern]
                   ELSE t1
         IN  insertPartsKeepFirst(t2, child, parts, i + 1, pattern, handler)

\* AddRoute's loop storing a parameter node under the segment as written
RECURSIVE insertPartsNamedKey(_, _, _, _, _, _)
insertPartsNamedKey(t, current, parts, i, pattern, handler) ==
    IF i > Len(parts) THEN t
    ELSE IF parts[i] = <<>>
         THEN insertPartsNamedKey(t, current, parts, i + 1, pattern, handler)
    ELSE LET isParameter == HasPrefix(parts[i], <<":">>)
             isWildcard  == parts[i] = <<"*">>
             paramName   == IF isParameter THEN TrimPrefix(parts[i], <<":">>) ELSE <<>>
             part        == parts[i]
             child       == Append(current, part)
             t1 == IF child \in DOMAIN t THEN t
                   ELSE t @@ (child :> [newNode EXCEPT !.isParameter = isParameter,
                                                       !.isWildcard = isWildcard,
                                                       !.paramName = paramName])
             t2 == IF i = Len(parts)
                   THEN [t1 EXCEPT ![child].handler = handler,
                                   ![child].pattern = pattern]
                   ELSE t1
         IN  insertPartsNamedKey(t2, child, parts, i + 1, pattern, handler)

RECURSIVE insertParts(_, _, _, _, _, _)
insertParts(t, current, parts, i, pattern, handler) ==
    IF i > Len(parts) THEN t
    ELSE IF parts[i] = <<>> THEN insertParts(t, current, parts, i + 1, pattern, handler)
    ELSE LET isParameter == HasPrefix(parts[i], <<":">>)
             isWildcard  == parts[i] = <<"*">>
             paramName   == IF isParameter THEN TrimPrefix(parts[i], <<":">>) ELSE <<>>
             part        == IF isParameter THEN <<":">> ELSE parts[i]
             child       == Append(current, part)
             t1 == IF child \in DOMAIN t THEN t
                   ELSE t @@ (child :> [newNode EXCEPT !.isParameter = isParameter,
                                                       !.isWildcard = isWildcard,
                                                       !.paramName = paramName])
             t2 == IF i = Len(parts)
                   THEN [t1 EXCEPT ![child].handler = handler,
                                   ![child].pattern = pattern]
                   ELSE t1
         IN  insertParts(t2, child, parts, i + 1, pattern, handler)

addRoute(ts, method, pattern, handler) ==
    LET ts1 == IF method \notin DOMAIN ts THEN ts @@ (method :> newTrie) ELSE ts
        p   == normalize(pattern)
    IN  [ts1 EXCEPT ![method] = insertParts(ts1[method], <<>>, splitParts(p), 1, p, handler)]

NoMatch(params) == [handler |-> Nil, matched |-> FALSE, params |-> params]

setParam(params, k, v) ==
    [n \in DOMAIN params \cup {k} |-> IF n = k THEN v ELSE params[n]]

\* matchRoute with the parameter child tried before the exact child
RECURSIVE matchRouteParamFirst(_, _, _, _)
matchRouteParamFirst(t, node, parts, params) ==
    IF Len(parts) = 0
    THEN [handler |-> t[node].handler, matched |-> t[node].handler # Nil,
          params |-> params]
    ELSE LET part  == Head(parts)
             rest  == Tail(parts)
             exact == Append(node, part)
             param == Append(node, <<":">>)
             wild  == Append(node, <<"*">>)
             p1 == IF param \in DOMAIN t /\ t[param].paramName # <<>>
                   THEN setParam(params, t[param].paramName, part)
                   ELSE params
             r1 == IF param \in DOMAIN t
                   THEN matchRouteParamFirst(t, param, rest, p1) ELSE NoMatch(p1)
             r2 == IF exact \in DOMAIN t
                   THEN matchRouteParamFirst(t, exact, rest, r1.params)
                   ELSE NoMatch(r1.params)
         IN  IF r1.matched THEN r1
             ELSE IF r2.matched THEN r2
             ELSE IF wild \in DOMAIN t /\ t[wild].handler # Nil
                  THEN [handler |-> t[wild].handler, matched |-> TRUE,
                        params |-> r2.params]
                  ELSE NoMatch(r2.params)

\* matchRoute that commits to the exact child when there is one
RECURSIVE matchRouteGreedy(_, _, _, _)
matchRouteGreedy(t, node, parts, params) ==
    IF Len(parts) = 0
    THEN [handler |-> t[node].handler, matched |-> t[node].handler # Nil,
          params |-> params]
    ELSE LET part  == Head(parts)
             rest  == Tail(parts)
             exact == Append(node, part)
             param == Append(node, <<":">>)
             wild  == Append(node, <<"*">>)
             p2 == IF param \in DOMAIN t /\ t[param].paramName # <<>>
                   THEN setParam(params, t[param].paramName, part)
                   ELSE params
             r2 == IF param \in DOMAIN t
                   THEN matchRouteGreedy(t, param, rest, p2) ELSE NoMatch(p2)
         IN  IF exact \in DOMAIN t THEN matchRouteGreedy(t, exact, rest, params)
             ELSE IF r2.matched THEN r2
             ELSE IF wild \in DOMAIN t /\ t[wild].handler # Nil
                  THEN [handler |-> t[wild].handler, matched |-> TRUE,
                        params |-> r2.params]
                  ELSE NoMatch(r2.params)

\* matchRoute whose wildcard child consumes one segment only
RECURSIVE matchRouteWildOne(_, _, _, _)
matchRouteWildOne(t, node, parts, params) ==
    IF Len(parts) = 0
    THEN [handler |-> t[node].handler, matched |-> t[node].handler # Nil,
          params |-> params]
    ELSE LET part  == Head(parts)
             rest  == Tail(parts)
             exact == Append(node, part)
             param == Append(node, <<":">>)
             wild  == Append(node, <<"*">>)
             r1 == IF exact \in DOMAIN t
                   THEN matchRouteWildOne(t, exact, rest, params) ELSE NoMatch(params)
             p2 == IF param \in DOMAIN t /\ t[param].paramName # <<>>
                   THEN setParam(r1.params, t[param].paramName, part)
                   ELSE r1.params
             r2 == IF param \in DOMAIN t
                   THEN matchRouteWildOne(t, param, rest, p2) ELSE NoMatch(p2)
         IN  IF r1.matched THEN r1
             ELSE IF r2.matched THEN r2
             ELSE IF wild \in DOMAIN t /\ t[wild].handler # Nil /\ Len(rest) = 0
                  THEN [handler |-> t[wild].handler, matched |-> TRUE,
                        params |-> r2.params]
                  ELSE NoMatch(r2.params)

\* params is a Go map passed by reference: what a branch stored stays
\* stored when the branch fails, so it is threaded through the result.
RECURSIVE matchRoute(_, _, _, _)
matchRoute(t, node, parts, params) ==
    IF Len(parts) = 0
    THEN [handler |-> t[node].handler, matched |-> t[node].handler # Nil,
          params |-> params]
    ELSE LET part  == Head(parts)
             rest  == Tail(parts)
             exact == Append(node, part)
             param == Append(node, <<":">>)
             wild  == Append(node, <<"*">>)
             r1 == IF exact \in DOMAIN t
                   THEN matchRoute(t, exact, rest, params) ELSE NoMatch(params)
             p2 == IF param \in DOMAIN t /\ t[param].paramName # <<>>
                   THEN setParam(r1.params, t[param].paramName, part)
                   ELSE r1.params
             r2 == IF param \in DOMAIN t
                   THEN matchRoute(t, param, rest, p2) ELSE NoMatch(p2)
         IN  IF r1.matched THEN r1
             ELSE IF r2.matched THEN r2
             ELSE IF wild \in DOMAIN t /\ t[wild].handler # Nil
                  THEN [handler |-> t[wild].handler, matched |-> TRUE,
                        params |-> r2.params]
                  ELSE NoMatch(r2.params)

\* HandleRequest copying the params of the search into the Context whether
\* or not a route matched
handleRequestCopiesAlways(ts, method, path0, cparams) ==
    LET path == normalizePath(path0)
        miss == [ret |-> FALSE, handler |-> Nil, Params |-> cparams]
    IN  IF method \notin DOMAIN ts THEN miss
        ELSE LET m == matchRoute(ts[method], <<>>, splitParts(path), <<>>)
                 copied == [k \in DOMAIN cparams \cup DOMAIN m.params |->
                              IF k \in DOMAIN m.params THEN m.params[k]
                              ELSE cparams[k]]
             IN  IF m.matched /\ m.handler # Nil
                 THEN [ret |-> TRUE, handler |-> m.handler, Params |-> copied]
                 ELSE [ret |-> FALSE, handler |-> Nil, Params |-> copied]

\* HandleRequest searching some other method's tree when the request's
\* method has none
handleRequestAnyMethod(ts, method, path0, cparams) ==
    LET path == normalizePath(path0)
        miss == [ret |-> FALSE, handler |-> Nil, Params |-> cparams]
    IN  IF DOMAIN ts = {} THEN miss
        ELSE LET tree == IF method \in DOMAIN ts THEN ts[method]
                         ELSE ts[CHOOSE other \in DOMAIN ts : TRUE]
                 m == matchRoute(tree, <<>>, splitParts(path), <<>>)
             IN  IF m.matched /\ m.handler # Nil
                 THEN [ret |-> TRUE, handler |-> m.handler,
                       Params |-> [k \in DOMAIN cparams \cup DOMAIN m.params |->
                                     IF k \in DOMAIN m.params THEN m.params[k]
                                     ELSE cparams[k]]]
                 ELSE miss

\* The result of HandleRequest on a fresh Context for (method, path):
\* the return value, the handler invoked and the Context's Params.
handleRequest(ts, method, path0, cparams) ==
    LET path == normalizePath(path0)
        miss == [ret |-> FALSE, handler |-> Nil, Params |-> cparams]
    IN  IF method \notin DOMAIN ts THEN miss
        ELSE LET m == matchRoute(ts[method], <<>>, splitParts(path), <<>>)
             IN  IF m.matched /\ m.handler # Nil
                 THEN [ret |-> TRUE, handler |-> m.handler,
                       Params |-> [k \in DOMAIN cparams \cup DOMAIN m.params |->
                                     IF k \in DOMAIN m.params THEN m.params[k]
                                     ELSE cparams[k]]]
                 ELSE miss

NoReq == [Method |-> "", Path |-> <<>>, segs |-> <<>>, sent |-> FALSE]

RouterInit ==
    /\ trees = NewRouter
    /\ routes = <<>>
    /\ req = NoReq
    /\ c_Params = <<>>
    /\ handled = Nil
    /\ found = FALSE

\* what a registered pattern counts for against MaxSegs
Cost(segs) == IF segs = <<>> THEN 1 ELSE Len(segs)

RECURSIVE Registered(_)
Registered(rs) == IF rs = <<>> THEN 0 ELSE Cost(Head(rs).segs) + Registered(Tail(rs))

\* AddRoute(method, pattern, handler); the handler registered by the n-th
\* call is handler n.  Routes are registered before traffic is served.
AddPattern(method, pattern, segs, max) ==
    /\ Registered(routes) + Cost(segs) <= max
    /\ ~req.sent
    /\ LET handler == Len(routes) + 1
       IN  /\ trees' = addRoute(trees, method, pattern, handler)
           /\ routes' = Append(routes, [method |-> method, pattern |-> pattern,
                                        segs |-> segs, handler |-> handler])
    /\ UNCHANGED <<req, c_Params, handled, found>>
    /\ UNCHANGED notRouterVars

\* AddRoute with the pattern written in its usual form "/s1/.../sn"
AddRoute(method, segs) == AddPattern(method, PathOf(segs), segs, MaxSegs)

\* NewContext followed by HandleRequest(c).  A request leaves the router
\* as it was, so one request per behaviour stands for any number of them.
Dispatch(method, path, segs) ==
    /\ Len(routes) > 0
    /\ ~req.sent
    /\ \E r \in {handleRequest(trees, method, path, <<>>)} :
           /\ req' = [Method |-> method, Path |-> path, segs |-> segs,
                      sent |-> TRUE]
           /\ c_Params' = r.Params
           /\ handled' = r.handler
           /\ found' = r.ret
    /\ UNCHANGED <<trees, routes>>
    /\ UNCHANGED notRouterVars

\* a request whose URL path is "/s1/.../sn"
HandleRequest(method, segs) == Dispatch(method, PathOf(segs), segs)

RouterNext ==
    \/ \E m \in Methods, segs \in SeqsUpTo(PatSegs, MaxSegs - Registered(routes)) :
          AddRoute(m, segs)
    \/ \E m \in Methods, segs \in SeqsUpTo(PathSegs, MaxPathLen) : HandleRequest(m, segs)

----------------------------------------------------------------------------
(* Routes under several methods *)

RouteMethods   == {"GET", "POST"}
RequestMethods == {"GET", "POST", "PUT"}

MethodNext ==
    \/ \E m \in RouteMethods,
          segs \in SeqsUpTo(PatSegs, MaxMethodSegs - Registered(routes)) :
          AddPattern(m, PathOf(segs), segs, MaxMethodSegs)
    \/ \E m \in RequestMethods, segs \in SeqsUpTo(PathSegs, MaxPathLen) :
          HandleRequest(m, segs)

----------------------------------------------------------------------------
(* Patterns and paths in the forms callers write them *)

\* "s1/s2/.../sn"
RECURSIVE JoinRaw(_)
JoinRaw(segs) ==
    IF segs = <<>> THEN <<>>
    ELSE IF Len(segs) = 1 THEN Head(segs)
    ELSE Head(segs) \o <<"/">> \o JoinRaw(Tail(segs))

\* the segments written with or without the leading and the trailing slash;
\* the root is written "/" or ""
Raw(segs, lead, trail) ==
    IF segs = <<>> THEN (IF lead THEN <<"/">> ELSE <<>>)
    ELSE (IF lead THEN <<"/">> ELSE <<>>) \o JoinRaw(segs)
             \o (IF trail THEN <<"/">> ELSE <<>>)

Variants == {"same", "slash added", "slash removed", "no leading slash"}

\* the request paths derived from a registered pattern string
Variant(p, kind) ==
    CASE kind = "same" -> p
      [] kind = "slash added" -> p \o <<"/">>
      [] kind = "slash removed" ->
            IF HasSuffix(p, <<"/">>) THEN SubSeq(p, 1, Len(p) - 1) ELSE p
      [] kind = "no leading slash" ->
            IF HasPrefix(p, <<"/">>) THEN SubSeq(p, 2, Len(p)) ELSE p

\* AddRoute with the pattern as the caller wrote it
AddRawRoute(method, segs, lead, trail) ==
    AddPattern(method, Raw(segs, lead, trail), segs, MaxRawSegs)

\* a request whose URL path is a variant of the pattern of route i
HandleVariant(i, kind) ==
    Dispatch(routes[i].method, Variant(routes[i].pattern, kind), routes[i].segs)

NormNext ==
    \/ \E m \in Methods, segs \in SeqsUpTo(PatSegs, MaxRawSegs - Registered(routes)),
          lead \in BOOLEAN, trail \in BOOLEAN : AddRawRoute(m, segs, lead, trail)
    \/ \E i \in 1..Len(routes), kind \in Variants : HandleVariant(i, kind)

----------------------------------------------------------------------------
(* package context *)

NoDeadline == -1
NoParent   == -1

Background == [parent |-> NoParent, deadline |-> NoDeadline, cancelled |-> FALSE]

\* <-ctx.Done() is ready: the token was cancelled, its deadline has passed,
\* or its parent is done.
RECURSIVE ctxDone(_, _, _)
ctxDone(toks, t, time) ==
    \/ toks[t].cancelled
    \/ toks[t].deadline # NoDeadline /\ time >= toks[t].deadline
    \/ toks[t].parent # NoParent /\ ctxDone(toks, toks[t].parent, time)

\* context.WithTimeout(parent, d): the child never outlives its parent's
\* deadline.
WithTimeout(toks, parent, d, time) ==
    LET pd == toks[parent].deadline
        dl == IF pd # NoDeadline /\ pd < time + d THEN pd ELSE time + d
    IN  [parent |-> parent, deadline |-> dl, cancelled |-> FALSE]

\* a cancel function that releases nothing
cancelNothing(toks, t) == toks

cancel(toks, t) == [toks EXCEPT ![t].cancelled = TRUE]

----------------------------------------------------------------------------
(* The Timeout and Recovery middlewares: src/middleware *)

defaultTimeout    == 10     \* defaultTimeoutConfig.Timeout, in seconds
defaultMaxRetries == 3      \* defaultTimeoutConfig.MaxRetries
maxTimeout        == 60     \* doubleTimeout: const maxTimeout, in seconds

StatusOK                  == 200
StatusInternalServerError == 500
StatusGatewayTimeout      == 504

doubleTimeout(t) == IF t < maxTimeout THEN 2 * t ELSE maxTimeout

NoResult == -1       \* doubleTimeout has not been called

DoubleInit == dbl \in [arg : 1..MaxTimeoutArg, result : {NoResult}]

\* timeout = doubleTimeout(timeout)
DoubleTimeout ==
    /\ dbl.result = NoResult
    /\ dbl' = [dbl EXCEPT !.result = doubleTimeout(dbl.arg)]
    /\ UNCHANGED notFnVars

DoubleNext == DoubleTimeout

\* c.Error(code, errCode, message) -> c.JSON -> c.Status: one write of the
\* status line and the {code, message} body to c.Writer.
Error(ws, code, errCode, who) ==
    Append(ws, [status |-> code, code |-> errCode, by |-> who])

\* Recovery's deferred function: a panic that reaches it becomes a 500.
Recovery(ws, panicked, who) ==
    IF panicked THEN Error(ws, StatusInternalServerError, "INTERNAL_ERROR", who)
    ELSE ws

cur == Len(att)         \* the attempt of the current loop iteration

TimeoutInit ==
    /\ now = 0
    /\ tokens = (0 :> Background)
    /\ c_ctx = 0
    /\ retry = 0
    /\ timeout = defaultTimeout
    /\ pc = "loop"
    /\ att = <<>>
    /\ writes = <<>>
    /\ handlerKind \in {"returns", "never", "panics"}
    /\ recoveryInner \in BOOLEAN

\* Timeout, lines 85-106: derive the attempt's token, install it in the
\* Context, make the done channel and launch the goroutine.
StartAttempt ==
    /\ pc = "loop"
    /\ retry < defaultMaxRetries
    /\ LET a   == Len(att) + 1
           ctx == WithTimeout(tokens, c_ctx, timeout, now)
           tks == tokens @@ (a :> ctx)
       IN  /\ tokens' = tks
           /\ c_ctx' = a
           /\ att' = Append(att, [tok |-> a, state |-> "running", wrote |-> FALSE,
                                  done |-> 0, startedAt |-> now,
                                  liveAtStart |-> ~ctxDone(tks, a, now),
                                  rootLiveAtStart |-> ~ctxDone(tks, 0, now),
                                  inTime |-> FALSE])
    /\ pc' = "select"
    /\ UNCHANGED <<now, retry, timeout, writes, handlerKind, recoveryInner>>
    /\ UNCHANGED notTimeoutVars

\* case <-done without the return: the loop goes round again
SelectDoneNoReturn ==
    /\ pc = "select"
    /\ att[cur].done = 1
    /\ att' = [att EXCEPT ![cur].done = 0]
    /\ tokens' = cancel(tokens, att[cur].tok)
    /\ pc' = "loop"
    /\ writes' = writes
    /\ UNCHANGED <<now, c_ctx, retry, timeout, handlerKind, recoveryInner>>
    /\ UNCHANGED notTimeoutVars

\* select, case <-done (lines 110-113)
SelectDone ==
    /\ pc = "select"
    /\ att[cur].done = 1
    /\ att' = [att EXCEPT ![cur].done = 0]
    /\ tokens' = cancel(tokens, att[cur].tok)
    /\ pc' = "returned"
    /\ writes' = IF recoveryInner THEN writes ELSE Recovery(writes, FALSE, "recovery")
    /\ UNCHANGED <<now, c_ctx, retry, timeout, handlerKind, recoveryInner>>
    /\ UNCHANGED notTimeoutVars

\* case <-ctx.Done() returning after the last expiry without a response
SelectTimeoutNoResponse ==
    /\ pc = "select"
    /\ ctxDone(tokens, att[cur].tok, now)
    /\ retry' = retry + 1
    /\ tokens' = cancel(tokens, att[cur].tok)
    /\ writes' = writes
    /\ IF retry' = defaultMaxRetries
       THEN pc' = "returned" /\ timeout' = timeout
       ELSE pc' = "loop" /\ timeout' = doubleTimeout(timeout)
    /\ UNCHANGED <<now, c_ctx, att, handlerKind, recoveryInner>>
    /\ UNCHANGED notTimeoutVars

\* case <-ctx.Done() answering every expiry with the 504
SelectTimeoutAlwaysWrites ==
    /\ pc = "select"
    /\ ctxDone(tokens, att[cur].tok, now)
    /\ retry' = retry + 1
    /\ tokens' = cancel(tokens, att[cur].tok)
    /\ writes' = Error(writes, StatusGatewayTimeout, "TIMEOUT", "timeout")
    /\ IF retry' = defaultMaxRetries
       THEN pc' = "returned" /\ timeout' = timeout
       ELSE pc' = "loop" /\ timeout' = doubleTimeout(timeout)
    /\ UNCHANGED <<now, c_ctx, att, handlerKind, recoveryInner>>
    /\ UNCHANGED notTimeoutVars

\* select, case <-ctx.Done() (lines 114-130)
SelectTimeout ==
    /\ pc = "select"
    /\ ctxDone(tokens, att[cur].tok, now)
    /\ retry' = retry + 1
    /\ tokens' = cancel(tokens, att[cur].tok)
    /\ IF retry' = defaultMaxRetries
       THEN /\ writes' = LET ws == Error(writes, StatusGatewayTimeout, "TIMEOUT", "timeout")
                         IN  IF recoveryInner THEN ws ELSE Recovery(ws, FALSE, "recovery")
            /\ pc' = "returned"
            /\ timeout' = timeout
       ELSE /\ timeout' = doubleTimeout(timeout)
            /\ pc' = IF retry' < defaultMaxRetries THEN "loop" ELSE "returned"
            /\ writes' = writes
    /\ UNCHANGED <<now, c_ctx, att, handlerKind, recoveryInner>>
    /\ UNCHANGED notTimeoutVars

\* The handler of attempt a writes its response (c.JSON(200, ...)).
HandlerWrite(a) ==
    /\ att[a].state = "running"
    /\ ~att[a].wrote
    /\ handlerKind = "returns"
    /\ writes' = Append(writes, [status |-> StatusOK, code |-> "", by |-> "handler"])
    /\ att' = [att EXCEPT ![a].wrote = TRUE]
    /\ UNCHANGED <<now, tokens, c_ctx, retry, timeout, pc, handlerKind, recoveryInner>>
    /\ UNCHANGED notTimeoutVars

\* next(c) returns in the goroutine of attempt a; the deferred function
\* sends on done (buffered, so the send never blocks).
HandlerReturn(a) ==
    /\ att[a].state = "running"
    /\ handlerKind = "returns"
    /\ att' = [att EXCEPT ![a].state = "returned", ![a].done = 1,
                          ![a].inTime = ~ctxDone(tokens, att[a].tok, now)]
    /\ UNCHANGED <<now, tokens, c_ctx, retry, timeout, pc, writes, handlerKind,
                   recoveryInner>>
    /\ UNCHANGED notTimeoutVars

\* a goroutine without the deferred function: the panic is not signalled
HandlerPanicNoSignal(a) ==
    /\ att[a].state = "running"
    /\ handlerKind = "panics"
    /\ writes' = IF recoveryInner THEN Recovery(writes, TRUE, "recovery") ELSE writes
    /\ att' = [att EXCEPT ![a].state = "panicked",
                          ![a].inTime = ~ctxDone(tokens, att[a].tok, now)]
    /\ UNCHANGED <<now, tokens, c_ctx, retry, timeout, pc, handlerKind, recoveryInner>>
    /\ UNCHANGED notTimeoutVars

\* The handler panics in the goroutine of attempt a.  With Recovery inside
\* Timeout the panic reaches Recovery first; otherwise the goroutine's own
\* recover() swallows it.  Either way done is signalled.
HandlerPanic(a) ==
    /\ att[a].state = "running"
    /\ handlerKind = "panics"
    /\ writes' = IF recoveryInner THEN Recovery(writes, TRUE, "recovery") ELSE writes
    /\ att' = [att EXCEPT ![a].state = "panicked", ![a].done = 1,
                          ![a].inTime = ~ctxDone(tokens, att[a].tok, now)]
    /\ UNCHANGED <<now, tokens, c_ctx, retry, timeout, pc, handlerKind, recoveryInner>>
    /\ UNCHANGED notTimeoutVars

\* The middleware goroutine is blocked in select: neither case is ready.
\* Its own steps take no time, so the clock and the client move only then.
Blocked ==
    /\ pc = "select"
    /\ att[cur].done = 0
    /\ ~ctxDone(tokens, att[cur].tok, now)

Tick ==
    /\ Blocked
    /\ now' = now + 1
    /\ UNCHANGED <<tokens, c_ctx, retry, timeout, pc, att, writes, handlerKind,
                   recoveryInner>>
    /\ UNCHANGED notTimeoutVars

\* The client goes away: net/http cancels r.Context().
ParentCancel ==
    /\ Blocked
    /\ tokens' = cancel(tokens, 0)
    /\ UNCHANGED <<now, c_ctx, retry, timeout, pc, att, writes, handlerKind,
                   recoveryInner>>
    /\ UNCHANGED notTimeoutVars

\* no handler has called GetContext
NoRead == [attempt |-> Nil, tok |-> Nil]

ReadInit == observed = NoRead

\* The handler of attempt a calls c.GetContext(): it reads c.ctx, which the
\* middleware's goroutine writes at the start of each attempt, no lock held
\* by either.
HandlerGetContext(a) ==
    /\ att[a].state = "running"
    /\ observed' = [attempt |-> a, tok |-> c_ctx]
    /\ UNCHANGED notReadVars

TimeoutNext ==
    \/ StartAttempt
    \/ SelectDone
    \/ SelectTimeout
    \/ \E a \in 1..Len(att) : HandlerWrite(a)
    \/ \E a \in 1..Len(att) : HandlerReturn(a)
    \/ \E a \in 1..Len(att) : HandlerPanic(a)
    \/ Tick
    \/ ParentCancel

doneCap == 1        \* done := make(chan bool, 1)

\* done <- true on an unbuffered channel: the middleware must be receiving
CanSendUnbuffered(a) == pc = "select" /\ cur = a

\* done <- true does not block: the channel's buffer has room
CanSend(a) == att[a].done < doneCap

\* next(c) returns in the goroutine of attempt a; the deferred function runs
NextReturns(a) ==
    /\ att[a].state = "running"
    /\ handlerKind = "returns"
    /\ att' = [att EXCEPT ![a].state = "returning",
                          ![a].inTime = ~ctxDone(tokens, att[a].tok, now)]
    /\ UNCHANGED <<now, tokens, c_ctx, retry, timeout, pc, writes, handlerKind,
                   recoveryInner>>
    /\ UNCHANGED notTimeoutVars

\* next(c) panics in the goroutine of attempt a; the deferred function
\* recovers
NextPanics(a) ==
    /\ att[a].state = "running"
    /\ handlerKind = "panics"
    /\ writes' = IF recoveryInner THEN Recovery(writes, TRUE, "recovery") ELSE writes
    /\ att' = [att EXCEPT ![a].state = "panicking",
                          ![a].inTime = ~ctxDone(tokens, att[a].tok, now)]
    /\ UNCHANGED <<now, tokens, c_ctx, retry, timeout, pc, handlerKind, recoveryInner>>
    /\ UNCHANGED notTimeoutVars

\* the deferred function's done <- true, after which the goroutine ends
SendDone(a) ==
    /\ att[a].state \in {"returning", "panicking"}
    /\ CanSend(a)
    /\ att' = [att EXCEPT ![a].done = @ + 1,
                          ![a].state = IF @ = "returning" THEN "returned"
                                       ELSE "panicked"]
    /\ UNCHANGED <<now, tokens, c_ctx, retry, timeout, pc, writes, handlerKind,
                   recoveryInner>>
    /\ UNCHANGED notTimeoutVars

\* the Timeout middleware with the end of a goroutine in its two steps
TimeoutSendNext ==
    \/ StartAttempt
    \/ SelectDone
    \/ SelectTimeout
    \/ \E a \in 1..Len(att) : HandlerWrite(a)
    \/ \E a \in 1..Len(att) : NextReturns(a)
    \/ \E a \in 1..Len(att) : NextPanics(a)
    \/ \E a \in 1..Len(att) : SendDone(a)
    \/ Tick
    \/ ParentCancel

\* the same, the handlers reading the Context's token while they run
TimeoutReadNext ==
    \/ TimeoutNext
    \/ \E a \in 1..Len(att) : HandlerGetContext(a)

----------------------------------------------------------------------------
(* Go slices of Middleware *)

NoArray == 0         \* the array of a slice of capacity 0

Growth == {0, 1}     \* the spare capacity a grown array may get

\* make([]Middleware, 0)
emptySlice == [arr |-> NoArray, len |-> 0]

cap(h, s) == IF s.arr = NoArray THEN 0 ELSE Len(h[s.arr])

\* the elements s[0:len(s)]
Elements(h, s) == IF s.len = 0 THEN <<>> ELSE SubSeq(h[s.arr], 1, s.len)

Zeros(n) == [k \in 1..n |-> Nil]

\* append(s, xs...): in place when the capacity suffices, otherwise into a
\* new array with `spare' unused slots
append(h, s, xs, spare) ==
    IF xs = <<>> THEN [heap |-> h, slice |-> s]
    ELSE IF s.len + Len(xs) <= cap(h, s)
    THEN [heap |-> [h EXCEPT ![s.arr] =
                        SubSeq(@, 1, s.len) \o xs
                            \o SubSeq(@, s.len + Len(xs) + 1, Len(@))],
          slice |-> [s EXCEPT !.len = @ + Len(xs)]]
    ELSE [heap |-> Append(h, Elements(h, s) \o xs \o Zeros(spare)),
          slice |-> [arr |-> Len(h) + 1, len |-> s.len + Len(xs)]]

----------------------------------------------------------------------------
(* MiddlewareChain *)

NewMiddlewareChain == [middlewares |-> emptySlice]

Use(h, mc, ms, spare) ==
    LET a == append(h, mc.middlewares, ms, spare)
    IN  [heap |-> a.heap, chain |-> [middlewares |-> a.slice]]

\* Clone handing out the original's slice
CloneShared(h, mc, spare) ==
    [heap |-> h, chain |-> [middlewares |-> mc.middlewares]]

Clone(h, mc, spare) ==
    LET newChain == NewMiddlewareChain
        a == append(h, newChain.middlewares, Elements(h, mc.middlewares), spare)
    IN  [heap |-> a.heap, chain |-> [middlewares |-> a.slice]]

\* A HandlerFunc: the route's handler, or a decorator around a HandlerFunc.
\* Decorator m runs its pre-logic, calls next, runs its post-logic.
BaseHandler == [mw |-> Nil]

wrap(m, next) == [mw |-> m, next |-> next]

\* what a call of the handler does, in order
RECURSIVE Run(_)
Run(handler) ==
    IF handler.mw = Nil THEN << <<"handler", Nil>> >>
    ELSE << <<"pre", handler.mw>> >> \o Run(handler.next)
             \o << <<"post", handler.mw>> >>

RECURSIVE applyLoopInOrder(_, _, _)
applyLoopInOrder(ms, i, handler) ==
    IF i >= Len(ms) THEN handler
    ELSE applyLoopInOrder(ms, i + 1, wrap(ms[i + 1], handler))

\* the loop of Apply, i counting from 0
RECURSIVE applyLoop(_, _, _)
applyLoop(ms, i, handler) ==
    IF i >= Len(ms) THEN handler
    ELSE applyLoop(ms, i + 1, wrap(ms[Len(ms) - i], handler))

\* Apply wrapping in registration order, the first decorator innermost
ApplyInOrder(h, mc, handler) ==
    applyLoopInOrder(Elements(h, mc.middlewares), 0, handler)

Apply(h, mc, handler) == applyLoop(Elements(h, mc.middlewares), 0, handler)

----------------------------------------------------------------------------
(* MiddlewareManager *)

GroupPrefixes == {<<"/">>, <<"/", "a">>}
ChainPaths    == {<<"/", "a", "b">>, <<"/", "a", "/", "b">>}

NewMiddlewareManager ==
    [globalChain |-> NewMiddlewareChain, groupChains |-> <<>>, routeChains |-> <<>>]

useGlobal(h, m, ms, spare) ==
    LET u == Use(h, m.globalChain, ms, spare)
    IN  [heap |-> u.heap, mm |-> [m EXCEPT !.globalChain = u.chain]]

useGroup(h, m, groupPrefix, ms, spare) ==
    LET chain == IF groupPrefix \in DOMAIN m.groupChains
                 THEN m.groupChains[groupPrefix] ELSE NewMiddlewareChain
        u == Use(h, chain, ms, spare)
    IN  [heap |-> u.heap,
         mm |-> [m EXCEPT !.groupChains = (groupPrefix :> u.chain) @@ @]]

useRoute(h, m, method, path, ms, spare) ==
    LET methodChains == IF method \in DOMAIN m.routeChains
                        THEN m.routeChains[method] ELSE <<>>
        chain == IF path \in DOMAIN methodChains
                 THEN methodChains[path] ELSE NewMiddlewareChain
        u == Use(h, chain, ms, spare)
    IN  [heap |-> u.heap,
         mm |-> [m EXCEPT !.routeChains =
                    (method :> ((path :> u.chain) @@ methodChains)) @@ @]]

\* the orders in which a range over a map with the keys S may visit them
Orders(S) ==
    {f \in [1..Cardinality(S) -> S] : \A i, j \in DOMAIN f : f[i] = f[j] => i = j}

\* for prefix, groupChain := range mm.groupChains, visiting in `order'
RECURSIVE rangeGroups(_, _, _, _, _, _, _)
rangeGroups(h, m, chain, path, order, i, spare) ==
    IF i > Len(order) THEN [heap |-> h, chain |-> chain]
    ELSE LET prefix == order[i]
             groupChain == m.groupChains[prefix]
         IN  IF prefix = <<"/">> \/ HasPrefix(path, prefix)
             THEN LET u == Use(h, chain, Elements(h, groupChain.middlewares), spare)
                  IN  rangeGroups(u.heap, m, u.chain, path, order, i + 1, spare)
             ELSE rangeGroups(h, m, chain, path, order, i + 1, spare)

\* GetMiddlewareChain appending the route's chain before the groups'
getMiddlewareChainRouteFirst(h, m, method, path, order, spare) ==
    LET c == Clone(h, m.globalChain, spare)
        r == IF method \in DOMAIN m.routeChains
                /\ path \in DOMAIN m.routeChains[method]
             THEN Use(c.heap, c.chain,
                      Elements(c.heap, m.routeChains[method][path].middlewares),
                      spare)
             ELSE c
    IN  rangeGroups(r.heap, m, r.chain, path, order, 1, spare)

getMiddlewareChain(h, m, method, path, order, spare) ==
    LET c == Clone(h, m.globalChain, spare)
        g == rangeGroups(c.heap, m, c.chain, path, order, 1, spare)
    IN  IF method \in DOMAIN m.routeChains
           /\ path \in DOMAIN m.routeChains[method]
        THEN Use(g.heap, g.chain,
                 Elements(g.heap, m.routeChains[method][path].middlewares), spare)
        ELSE g

ChainInit ==
    /\ heap = <<>>
    /\ mm = NewMiddlewareManager
    /\ uses = <<>>
    /\ resolved = <<>>
    /\ growth \in Growth

Calls == Len(uses) + Len(resolved) + Len(app_middlewares) + Len(mux)

\* the decorator registered by the n-th Use call is decorator n
UseGlobal ==
    /\ Calls < MaxCalls
    /\ LET d == Len(uses) + 1
           u == useGlobal(heap, mm, <<d>>, growth)
       IN  /\ heap' = u.heap
           /\ mm' = u.mm
           /\ uses' = Append(uses, [tier |-> "global", method |-> "",
                                    key |-> <<>>, d |-> d])
    /\ UNCHANGED <<resolved, growth>>
    /\ UNCHANGED notChainVars

UseGroup(groupPrefix) ==
    /\ Calls < MaxCalls
    /\ LET d == Len(uses) + 1
           u == useGroup(heap, mm, groupPrefix, <<d>>, growth)
       IN  /\ heap' = u.heap
           /\ mm' = u.mm
           /\ uses' = Append(uses, [tier |-> "group", method |-> "",
                                    key |-> groupPrefix, d |-> d])
    /\ UNCHANGED <<resolved, growth>>
    /\ UNCHANGED notChainVars

UseRoute(method, path) ==
    /\ Calls < MaxCalls
    /\ LET d == Len(uses) + 1
           u == useRoute(heap, mm, method, path, <<d>>, growth)
       IN  /\ heap' = u.heap
           /\ mm' = u.mm
           /\ uses' = Append(uses, [tier |-> "route", method |-> method,
                                    key |-> path, d |-> d])
    /\ UNCHANGED <<resolved, growth>>
    /\ UNCHANGED notChainVars

\* ApplyMiddleware(method, path, handler) and a call of the handler it
\* returns; the range over groupChains visits the prefixes in `order'
Resolve(method, path, order) ==
    /\ Calls < MaxCalls
    /\ LET g == getMiddlewareChain(heap, mm, method, path, order, growth)
           handler == Apply(g.heap, g.chain, BaseHandler)
       IN  /\ heap' = g.heap
           /\ resolved' = Append(resolved,
                  [method |-> method, path |-> path, at |-> Len(uses),
                   chain |-> g.chain,
                   elems |-> Elements(g.heap, g.chain.middlewares),
                   handler |-> handler,
                   trace |-> Run(handler)])
    /\ UNCHANGED <<mm, uses, growth>>
    /\ UNCHANGED notChainVars

ChainNext ==
    \/ UseGlobal
    \/ \E groupPrefix \in GroupPrefixes : UseGroup(groupPrefix)
    \/ \E method \in Methods, path \in ChainPaths : UseRoute(method, path)
    \/ \E method \in Methods, path \in ChainPaths,
          order \in Orders(DOMAIN mm.groupChains) : Resolve(method, path, order)

\* var httpMethods: the method names route registration accepts
httpMethods == {"GET", "POST", "DELETE", "PUT", "PATCH"}

\* the method names UseRoute is called with, one of them not an HTTP method
UseMethods == {"GET", "BREW"}

RouteUseNext ==
    \/ \E method \in UseMethods, path \in ChainPaths : UseRoute(method, path)
    \/ \E method \in UseMethods, path \in ChainPaths,
          order \in Orders(DOMAIN mm.groupChains) : Resolve(method, path, order)

----------------------------------------------------------------------------
(* App: Use and HandleFunc, and the calls of registered handlers *)

AppPatterns == {"GET /a", "GET /b"}

NotServed == [kind |-> "none"]

AppInit ==
    /\ app_middlewares = <<>>
    /\ mux = <<>>
    /\ served = NotServed

\* the loop of applyMiddlewares, i counting down from len(middlewares) - 1
RECURSIVE applyFrom(_, _, _)
applyFrom(handler, middlewares, i) ==
    IF i < 0 THEN handler
    ELSE applyFrom(wrap(middlewares[i + 1], handler), middlewares, i - 1)

applyMiddlewares(handler, middlewares) ==
    applyFrom(handler, middlewares, Len(middlewares) - 1)

\* the decorator registered by the n-th App.Use call is decorator n
AppUse ==
    /\ Calls < MaxCalls
    /\ app_middlewares' = Append(app_middlewares, Len(app_middlewares) + 1)
    /\ UNCHANGED <<mux, served>>
    /\ UNCHANGED notAppVars

\* http.HandleFunc panics on a pattern registered before
HandleFunc(pattern) ==
    /\ Calls < MaxCalls
    /\ \A i \in 1..Len(mux) : mux[i].pattern # pattern
    /\ LET finalHandler == applyMiddlewares(BaseHandler, app_middlewares)
       IN  mux' = Append(mux, [pattern |-> pattern,
                               at |-> Len(app_middlewares),
                               finalHandler |-> finalHandler])
    /\ UNCHANGED <<app_middlewares, served>>
    /\ UNCHANGED notAppVars

\* a request for the i-th pattern: the closure calls its finalHandler
ServeHTTP(i) ==
    /\ i \in 1..Len(mux)
    /\ served' = [kind |-> "app", route |-> i,
                  trace |-> Run(mux[i].finalHandler)]
    /\ UNCHANGED <<app_middlewares, mux>>
    /\ UNCHANGED notAppVars

\* a call that builds the handler anew from the registry as it is now
ServeResolving(i) ==
    /\ i \in 1..Len(resolved)
    /\ \E order \in Orders(DOMAIN mm.groupChains) :
          LET g == getMiddlewareChain(heap, mm, resolved[i].method,
                                      resolved[i].path, order, growth)
          IN  served' = [kind |-> "registry", route |-> i,
                         trace |-> Run(Apply(g.heap, g.chain, BaseHandler))]
    /\ UNCHANGED <<app_middlewares, mux>>
    /\ UNCHANGED notAppVars

\* a later call of the handler that the i-th ApplyMiddleware returned
Serve(i) ==
    /\ i \in 1..Len(resolved)
    /\ served' = [kind |-> "registry", route |-> i,
                  trace |-> Run(resolved[i].handler)]
    /\ UNCHANGED <<app_middlewares, mux>>
    /\ UNCHANGED notAppVars

RegisterPrefix == <<"/", "a">>
RegisterPath   == <<"/", "a", "/", "b">>

RegisterNext ==
    \/ UseGlobal
    \/ UseGroup(RegisterPrefix)
    \/ \E method \in Methods : UseRoute(method, RegisterPath)
    \/ \E method \in Methods, order \in Orders(DOMAIN mm.groupChains) :
          Resolve(method, RegisterPath, order)
    \/ \E i \in 1..Len(resolved) : Serve(i)
    \/ AppUse
    \/ \E pattern \in AppPatterns : HandleFunc(pattern)
    \/ \E i \in 1..Len(mux) : ServeHTTP(i)

----------------------------------------------------------------------------
(* Context: the key/value store (src/context.go) *)

CtxKeys    == {"k", "j"}
ValueTypes == {"string", "int", "bool", "float64"}

Zero == 0            \* the data word of "", 0 and false

\* an interface value: its type word and its data word
Value(typ, dat) == [typ |-> typ, dat |-> dat]

Unlocked == [writer |-> Nil, readers |-> {}]

NoCall == [fn |-> "", key |-> "", val |-> Zero, err |-> "", before |-> <<>>]

\* the maps that Set calls can have built
Stores ==
    UNION {[ks -> {Value(t, 1) : t \in ValueTypes}] : ks \in SUBSET CtxKeys}

\* c.Get(key) with nobody holding the lock
Get(store, key) ==
    IF key \in DOMAIN store THEN [value |-> store[key], exists |-> TRUE]
    ELSE [value |-> Value("", Zero), exists |-> FALSE]

GetString(store, key) ==
    LET g == Get(store, key)
    IN  IF g.exists
        THEN IF g.value.typ = "string" THEN [val |-> g.value.dat, err |-> "nil"]
             ELSE [val |-> Zero, err |-> "value is not a string"]
        ELSE [val |-> Zero, err |-> "key not found"]

\* GetInt converting any number
GetIntAnyNumber(store, key) ==
    LET g == Get(store, key)
    IN  IF g.exists
        THEN IF g.value.typ \in {"int", "float64"}
             THEN [val |-> g.value.dat, err |-> "nil"]
             ELSE [val |-> Zero, err |-> "value is not an integer"]
        ELSE [val |-> Zero, err |-> "key not found"]

GetInt(store, key) ==
    LET g == Get(store, key)
    IN  IF g.exists
        THEN IF g.value.typ = "int" THEN [val |-> g.value.dat, err |-> "nil"]
             ELSE [val |-> Zero, err |-> "value is not an integer"]
        ELSE [val |-> Zero, err |-> "key not found"]

GetBool(store, key) ==
    LET g == Get(store, key)
    IN  IF g.exists
        THEN IF g.value.typ = "bool" THEN [val |-> g.value.dat, err |-> "nil"]
             ELSE [val |-> Zero, err |-> "value is not a boolean"]
        ELSE [val |-> Zero, err |-> "key not found"]

CtxIdle ==
    /\ keys = <<>>
    /\ mutex = Unlocked
    /\ gor = <<>>
    /\ lockLog = <<>>
    /\ got = NoCall

\* a Context on which Set has been called some number of times
GettersInit ==
    /\ keys \in Stores
    /\ mutex = Unlocked
    /\ gor = <<>>
    /\ lockLog = <<>>
    /\ got = NoCall

CallGetString(key) ==
    /\ got = NoCall
    /\ LET r == GetString(keys, key)
       IN  got' = [fn |-> "GetString", key |-> key, val |-> r.val, err |-> r.err,
                   before |-> keys]
    /\ UNCHANGED <<keys, mutex, gor, lockLog>>
    /\ UNCHANGED notCtxVars

CallGetInt(key) ==
    /\ got = NoCall
    /\ LET r == GetInt(keys, key)
       IN  got' = [fn |-> "GetInt", key |-> key, val |-> r.val, err |-> r.err,
                   before |-> keys]
    /\ UNCHANGED <<keys, mutex, gor, lockLog>>
    /\ UNCHANGED notCtxVars

CallGetBool(key) ==
    /\ got = NoCall
    /\ LET r == GetBool(keys, key)
       IN  got' = [fn |-> "GetBool", key |-> key, val |-> r.val, err |-> r.err,
                   before |-> keys]
    /\ UNCHANGED <<keys, mutex, gor, lockLog>>
    /\ UNCHANGED notCtxVars

GettersNext ==
    \/ \E key \in CtxKeys : CallGetString(key)
    \/ \E key \in CtxKeys : CallGetInt(key)
    \/ \E key \in CtxKeys : CallGetBool(key)

----------------------------------------------------------------------------
(* Context: goroutines calling Set and Get on the key "k" *)

Goroutines == 1..MaxGoroutines

\* the value goroutine p passes to Set: no two goroutines pass the same
\* data word, and neighbours pass values of different types
ValueOf(p) == Value(IF p % 2 = 1 THEN "string" ELSE "int", p)

NoResultYet == [exists |-> FALSE, typ |-> "", dat |-> Zero]

Caller(op) == [op |-> op, pc |-> "start", res |-> NoResultYet, setsDone |-> 0]

ConcInit ==
    /\ keys = <<>>
    /\ mutex = Unlocked
    /\ gor \in [Goroutines -> {Caller("Set"), Caller("Get")}]
    /\ lockLog = <<>>
    /\ got = NoCall

\* Set starting to write without taking the lock
SetNoLock(p) ==
    /\ gor[p].op = "Set" /\ gor[p].pc = "start"
    /\ gor' = [gor EXCEPT ![p].pc = "type word"]
    /\ lockLog' = Append(lockLog, p)
    /\ UNCHANGED <<keys, mutex, got>>
    /\ UNCHANGED notCtxVars

\* Set: c.mutex.Lock()
SetLock(p) ==
    /\ gor[p].op = "Set" /\ gor[p].pc = "start"
    /\ mutex.writer = Nil /\ mutex.readers = {}
    /\ mutex' = [mutex EXCEPT !.writer = p]
    /\ gor' = [gor EXCEPT ![p].pc = "type word"]
    /\ lockLog' = Append(lockLog, p)
    /\ UNCHANGED <<keys, got>>
    /\ UNCHANGED notCtxVars

\* Set: c.keys[key] = value, the type word of the interface value
SetTypeWord(p) ==
    /\ gor[p].pc = "type word" /\ gor[p].op = "Set"
    /\ keys' = ("k" :> Value(ValueOf(p).typ,
                             IF "k" \in DOMAIN keys THEN keys["k"].dat ELSE Zero))
                   @@ keys
    /\ gor' = [gor EXCEPT ![p].pc = "data word"]
    /\ UNCHANGED <<mutex, lockLog, got>>
    /\ UNCHANGED notCtxVars

\* Set: c.keys[key] = value, the data word
SetDataWord(p) ==
    /\ gor[p].pc = "data word" /\ gor[p].op = "Set"
    /\ keys' = [keys EXCEPT !["k"].dat = ValueOf(p).dat]
    /\ gor' = [gor EXCEPT ![p].pc = "unlock"]
    /\ UNCHANGED <<mutex, lockLog, got>>
    /\ UNCHANGED notCtxVars

\* Set: the deferred c.mutex.Unlock()
SetUnlock(p) ==
    /\ gor[p].pc = "unlock" /\ gor[p].op = "Set"
    /\ mutex' = IF mutex.writer = p THEN [mutex EXCEPT !.writer = Nil] ELSE mutex
    /\ gor' = [gor EXCEPT ![p].pc = "done"]
    /\ UNCHANGED <<keys, lockLog, got>>
    /\ UNCHANGED notCtxVars

\* the Set calls that have returned
SetsDone == {q \in Goroutines : gor[q].op = "Set" /\ gor[q].pc = "done"}

\* Get: c.mutex.RLock()
GetRLock(p) ==
    /\ gor[p].op = "Get" /\ gor[p].pc = "start"
    /\ mutex.writer = Nil
    /\ mutex' = [mutex EXCEPT !.readers = @ \cup {p}]
    /\ gor' = [gor EXCEPT ![p].pc = "type word",
                          ![p].setsDone = Cardinality(SetsDone)]
    /\ UNCHANGED <<keys, lockLog, got>>
    /\ UNCHANGED notCtxVars

\* Get: value, exists := c.keys[key], the type word
GetTypeWord(p) ==
    /\ gor[p].pc = "type word" /\ gor[p].op = "Get"
    /\ gor' = [gor EXCEPT ![p].pc = "data word",
                          ![p].res.exists = "k" \in DOMAIN keys,
                          ![p].res.typ = IF "k" \in DOMAIN keys THEN keys["k"].typ
                                         ELSE ""]
    /\ UNCHANGED <<keys, mutex, lockLog, got>>
    /\ UNCHANGED notCtxVars

\* Get: value, exists := c.keys[key], the data word
GetDataWord(p) ==
    /\ gor[p].pc = "data word" /\ gor[p].op = "Get"
    /\ gor' = [gor EXCEPT ![p].pc = "unlock",
                          ![p].res.dat = IF gor[p].res.exists /\ "k" \in DOMAIN keys
                                         THEN keys["k"].dat ELSE Zero]
    /\ UNCHANGED <<keys, mutex, lockLog, got>>
    /\ UNCHANGED notCtxVars

\* Get: the deferred c.mutex.RUnlock() and the return
GetRUnlock(p) ==
    /\ gor[p].pc = "unlock" /\ gor[p].op = "Get"
    /\ mutex' = [mutex EXCEPT !.readers = @ \ {p}]
    /\ gor' = [gor EXCEPT ![p].pc = "done"]
    /\ UNCHANGED <<keys, lockLog, got>>
    /\ UNCHANGED notCtxVars

ConcNext ==
    \E p \in Goroutines :
        \/ SetLock(p)
        \/ SetTypeWord(p)
        \/ SetDataWord(p)
        \/ SetUnlock(p)
        \/ GetRLock(p)
        \/ GetTypeWord(p)
        \/ GetDataWord(p)
        \/ GetRUnlock(p)

----------------------------------------------------------------------------
(* The RateLimiter middleware (src/middleware/rate_limiter.go) *)

limiterRate     == 10    \* defaultRateLimiterConfig.Rate, tokens per second
limiterCapacity == 20    \* defaultRateLimiterConfig.Capacity

StatusTooManyRequests == 429

ClientIPs == {"10.0.0.1", "10.0.0.2"}

NoBucket == 0            \* the nil *TokenBucket

NewTokenBucket(capacity, rate, time) ==
    [tokens |-> capacity, capacity |-> capacity, rate |-> rate, lastRefill |-> time]

\* Take without the cap at the capacity
TakeNoCap(b, time) ==
    LET refilled == b.tokens + (time - b.lastRefill) * b.rate
        b1 == [b EXCEPT !.lastRefill = time, !.tokens = refilled]
    IN  IF refilled < 1 THEN [bucket |-> b1, ok |-> FALSE]
        ELSE [bucket |-> [b1 EXCEPT !.tokens = @ - 1], ok |-> TRUE]

\* Take, the whole of it under tb.mu: the bucket afterwards and the result
Take(b, time) ==
    LET refilled == b.tokens + (time - b.lastRefill) * b.rate
        capped == IF refilled > b.capacity THEN b.capacity ELSE refilled
        b1 == [b EXCEPT !.lastRefill = time, !.tokens = capped]
    IN  IF capped < 1 THEN [bucket |-> b1, ok |-> FALSE]
        ELSE [bucket |-> [b1 EXCEPT !.tokens = @ - 1], ok |-> TRUE]

LimiterRequests == 1..MaxLimiterReqs

LimiterIdle ==
    /\ buckets = <<>>
    /\ tb = <<>>
    /\ lreq = <<>>
    /\ storeLog = <<>>
    /\ lclock = 0

\* requests of any clients arrive at a limiter that has seen none
LimiterInit ==
    /\ buckets = <<>>
    /\ tb = <<>>
    /\ lreq \in [LimiterRequests ->
                   [ip : ClientIPs, pc : {"lookup"}, bucket : {NoBucket},
                    status : {Nil}]]
    /\ storeLog = <<>>
    /\ lclock = 0

\* bucket, exists := rateLimiterStore.buckets[ip], under the read lock
Lookup(p) ==
    /\ lreq[p].pc = "lookup"
    /\ LET exists == lreq[p].ip \in DOMAIN buckets
       IN  lreq' = [lreq EXCEPT ![p].pc = IF exists THEN "take" ELSE "create",
                                ![p].bucket = IF exists THEN buckets[lreq[p].ip]
                                              ELSE NoBucket]
    /\ UNCHANGED <<buckets, tb, storeLog, lclock>>
    /\ UNCHANGED notLimiterVars

\* if !exists: bucket = NewTokenBucket(...) and, under the write lock,
\* rateLimiterStore.buckets[ip] = bucket
CreateBucket(p) ==
    /\ lreq[p].pc = "create"
    /\ LET b == Len(tb) + 1
       IN  /\ tb' = Append(tb, NewTokenBucket(limiterCapacity, limiterRate, lclock))
           /\ buckets' = (lreq[p].ip :> b) @@ buckets
           /\ storeLog' = Append(storeLog, [ip |-> lreq[p].ip, bucket |-> b])
           /\ lreq' = [lreq EXCEPT ![p].pc = "take", ![p].bucket = b]
    /\ UNCHANGED lclock
    /\ UNCHANGED notLimiterVars

\* bucket.Take(); with the default Timeout of 0 a refused request is
\* answered 429 at once, an admitted one goes on to next(c)
TakeToken(p) ==
    /\ lreq[p].pc = "take"
    /\ LET r == Take(tb[lreq[p].bucket], lclock)
       IN  /\ tb' = [tb EXCEPT ![lreq[p].bucket] = r.bucket]
           /\ lreq' = [lreq EXCEPT ![p].pc = "done",
                                   ![p].status = IF r.ok THEN StatusOK
                                                 ELSE StatusTooManyRequests]
    /\ UNCHANGED <<buckets, storeLog, lclock>>
    /\ UNCHANGED notLimiterVars

LimiterTick ==
    /\ lclock < MaxLimiterTime
    /\ \E p \in LimiterRequests : lreq[p].pc # "done"
    /\ lclock' = lclock + 1
    /\ UNCHANGED <<buckets, tb, lreq, storeLog>>
    /\ UNCHANGED notLimiterVars

\* Take has not been called
NoTake == [called |-> FALSE]

\* one bucket of any capacity and any refill rate, just made
BucketInit ==
    /\ bclock = 0
    /\ bucket \in {NewTokenBucket(capacity, rate, 0) :
                      capacity \in 0..MaxCapacity, rate \in 0..MaxRate}
    /\ taken = NoTake

\* a call of Take; concurrent calls run one after the other under tb.mu
BucketTake ==
    /\ LET r == Take(bucket, bclock)
       IN  /\ bucket' = r.bucket
           /\ taken' = [called |-> TRUE, before |-> bucket, now |-> bclock,
                        ok |-> r.ok]
    /\ UNCHANGED bclock
    /\ UNCHANGED notBucketVars

\* the clock never goes back
BucketTick ==
    /\ bclock < MaxBucketTime
    /\ bclock' = bclock + 1
    /\ UNCHANGED <<bucket, taken>>
    /\ UNCHANGED notBucketVars

BucketNext ==
    \/ BucketTake
    \/ BucketTick

LimiterNext ==
    \/ \E p \in LimiterRequests : Lookup(p)
    \/ \E p \in LimiterRequests : CreateBucket(p)
    \/ \E p \in LimiterRequests : TakeToken(p)
    \/ LimiterTick

----------------------------------------------------------------------------
(* MemoryStore: src/middleware/cache.go *)

StoreKeys == {"k"}

\* the durations Set is called with, in ticks
Durations == {1}

StoreOps == {"Get", "Set", "Delete"}

StoreGoroutines == 1..MaxStoreGoroutines

NoRemoval == [called |-> FALSE]

\* time.Now().After(item.Expiration)
Expired(item, time) == time > item.Expiration

\* NewMemoryStore, and goroutines about to call the store on one key
StoreInit ==
    /\ items = <<>>
    /\ sgor \in [StoreGoroutines -> [op : StoreOps, key : StoreKeys,
                                     pc : {"call"}, saw : {Nil}, found : {FALSE}]]
    /\ sclock = 0
    /\ made = 0
    /\ removed = NoRemoval

\* Get under the read lock (lines 50-59, 68): the item is looked up and its
\* expiry tested; an expired item sends the caller on to the deletion,
\* the read lock released (line 60)
GetLookup(p) ==
    /\ sgor[p].op = "Get" /\ sgor[p].pc = "call"
    /\ LET key == sgor[p].key
       IN  IF key \notin DOMAIN items
           THEN sgor' = [sgor EXCEPT ![p].pc = "done"]
           ELSE IF Expired(items[key], sclock)
           THEN sgor' = [sgor EXCEPT ![p].pc = "delete", ![p].saw = items[key].id]
           ELSE sgor' = [sgor EXCEPT ![p].pc = "done", ![p].saw = items[key].id,
                                     ![p].found = TRUE]
    /\ UNCHANGED <<items, sclock, made, removed>>
    /\ UNCHANGED notStoreVars

\* Get under the write lock (lines 61-65): delete(s.items, key)
GetDelete(p) ==
    /\ sgor[p].op = "Get" /\ sgor[p].pc = "delete"
    /\ LET key == sgor[p].key
       IN  /\ items' = [k \in DOMAIN items \ {key} |-> items[k]]
           /\ removed' = IF key \in DOMAIN items
                         THEN [called |-> TRUE, saw |-> sgor[p].saw,
                               item |-> items[key].id,
                               live |-> ~Expired(items[key], sclock)]
                         ELSE removed
    /\ sgor' = [sgor EXCEPT ![p].pc = "done"]
    /\ UNCHANGED <<sclock, made>>
    /\ UNCHANGED notStoreVars

\* Set, the whole of it under the write lock
StoreSet(p, duration) ==
    /\ sgor[p].op = "Set" /\ sgor[p].pc = "call"
    /\ made' = made + 1
    /\ items' = (sgor[p].key :> [id |-> made', Expiration |-> sclock + duration])
                    @@ items
    /\ sgor' = [sgor EXCEPT ![p].pc = "done"]
    /\ UNCHANGED <<sclock, removed>>
    /\ UNCHANGED notStoreVars

\* Delete, the whole of it under the write lock
StoreDelete(p) ==
    /\ sgor[p].op = "Delete" /\ sgor[p].pc = "call"
    /\ items' = [k \in DOMAIN items \ {sgor[p].key} |-> items[k]]
    /\ sgor' = [sgor EXCEPT ![p].pc = "done"]
    /\ UNCHANGED <<sclock, made, removed>>
    /\ UNCHANGED notStoreVars

StoreTick ==
    /\ sclock < MaxStoreTime
    /\ sclock' = sclock + 1
    /\ UNCHANGED <<items, sgor, made, removed>>
    /\ UNCHANGED notStoreVars

StoreNext ==
    \/ \E p \in StoreGoroutines : GetLookup(p)
    \/ \E p \in StoreGoroutines : GetDelete(p)
    \/ \E p \in StoreGoroutines, duration \in Durations : StoreSet(p, duration)
    \/ \E p \in StoreGoroutines : StoreDelete(p)
    \/ StoreTick

----------------------------------------------------------------------------
(* The response helpers of Context, writing to an http.ResponseWriter *)

\* c.Writer as the net/http server implements it: Header() is the live
\* header map; WriteHeader sends the status line with the header map as it
\* is at that moment, and later changes of the map reach nobody; the first
\* Write sends a missing status line and gives a response without a
\* Content-Type the type sniffed from the data.
NoStatus == 0

NewResponseWriter ==
    [header |-> <<>>, wroteHeader |-> FALSE, status |-> NoStatus,
     sent |-> <<>>, body |-> <<>>]

\* the Content-Type http.DetectContentType gives data of a kind
DetectContentType(kind) ==
    IF kind = "html" THEN "text/html; charset=utf-8"
    ELSE "text/plain; charset=utf-8"

\* w.Header().Set(k, v)
HeaderSet(w, k, v) == [w EXCEPT !.header = (k :> v) @@ @]

\* w.WriteHeader(code); a second call is ignored
WriteHeader(w, code) ==
    IF w.wroteHeader THEN w
    ELSE [w EXCEPT !.wroteHeader = TRUE, !.status = code, !.sent = w.header]

\* w.Write(data), data being of a kind
Write(w, kind) ==
    LET w1 == IF w.wroteHeader THEN w ELSE WriteHeader(w, StatusOK)
        w2 == IF w1.body = <<>> /\ "Content-Type" \notin DOMAIN w1.sent
              THEN [w1 EXCEPT !.sent =
                       ("Content-Type" :> DetectContentType(kind)) @@ @]
              ELSE w1
    IN  [w2 EXCEPT !.body = Append(@, kind)]

\* c.Status(code)
Status(w, code) == WriteHeader(w, code)

\* c.JSON(code, obj), obj being encodable
JSON(w, code) ==
    Write(HeaderSet(Status(w, code), "Content-Type", "application/json"), "json")

\* c.String(code, format)
String(w, code) ==
    Write(HeaderSet(Status(w, code), "Content-Type", "text/plain"), "text")

\* c.HTML(code, html)
HTML(w, code) ==
    Write(HeaderSet(Status(w, code), "Content-Type", "text/html"), "html")

\* c.Redirect(code, location)
Redirect(w, code, location) == Status(HeaderSet(w, "Location", location), code)

ResponseCodes == {StatusOK, StatusInternalServerError}

RespInit ==
    /\ rw = NewResponseWriter
    /\ c_StatusCode = NoStatus
    /\ helperLog = <<>>

CallHelper(helper, code, type, w) ==
    /\ Len(helperLog) < MaxHelperCalls
    /\ rw' = w
    /\ c_StatusCode' = code
    /\ helperLog' = Append(helperLog, [helper |-> helper, code |-> code,
                                       type |-> type])
    /\ UNCHANGED notRespVars

CallJSON(code) == CallHelper("JSON", code, "application/json", JSON(rw, code))

CallString(code) == CallHelper("String", code, "text/plain", String(rw, code))

CallHTML(code) == CallHelper("HTML", code, "text/html", HTML(rw, code))

CallRedirect(code) ==
    CallHelper("Redirect", code, "", Redirect(rw, code, "/login"))

RespNext ==
    \/ \E code \in ResponseCodes : CallJSON(code)
    \/ \E code \in ResponseCodes : CallString(code)
    \/ \E code \in ResponseCodes : CallHTML(code)
    \/ \E code \in ResponseCodes : CallRedirect(code)

----------------------------------------------------------------------------
(* The ResponseCache middleware: src/middleware/cache.go *)

\* w.Write(b), b being the chunks recorded
WriteBytes(w, chunks) ==
    LET w1 == IF w.wroteHeader THEN w ELSE WriteHeader(w, StatusOK)
        kind == IF chunks = <<>> THEN "text" ELSE chunks[1]
        w2 == IF w1.body = <<>> /\ "Content-Type" \notin DOMAIN w1.sent
              THEN [w1 EXCEPT !.sent =
                       ("Content-Type" :> DetectContentType(kind)) @@ @]
              ELSE w1
    IN  [w2 EXCEPT !.body = @ \o chunks]

CacheStatusCodes == {StatusOK}          \* DefaultCacheConfig.CacheStatusCodes

ChunkKinds == {"json", "html", "text"}

NoItem == [found |-> FALSE]

\* &ResponseRecorder{ResponseWriter: c.Writer, Body: &bytes.Buffer{}, ...}
NewResponseRecorder == [StatusCode |-> NoStatus, Body |-> <<>>]

CacheInit ==
    /\ cpc = "idle"
    /\ creq = 0
    /\ rec = NewResponseRecorder
    /\ cache = NoItem
    /\ headerCalls = 0

\* A GET request enters the middleware with a writer of its own (lines
\* 187-214).  On a hit the cached response is written and the middleware
\* returns; on a miss the recorder takes the place of c.Writer.
CacheRequest ==
    /\ cpc \in {"idle", "done"}
    /\ creq < MaxCacheRequests
    /\ creq' = creq + 1
    /\ rec' = NewResponseRecorder
    /\ IF cache.found
       THEN /\ rw' = WriteBytes(Status(HeaderSet(NewResponseWriter, "X-Cache", "HIT"),
                                       cache.StatusCode),
                                cache.Value)
            /\ headerCalls' = 1
            /\ cpc' = "hit"
       ELSE /\ rw' = NewResponseWriter
            /\ headerCalls' = 0
            /\ cpc' = "handler"
    /\ UNCHANGED <<cache, c_StatusCode, helperLog>>
    /\ UNCHANGED notCacheRespVars

\* the handler calls c.Status(code), as every response helper does first:
\* ResponseRecorder.WriteHeader
HandlerStatus(code) ==
    /\ cpc = "handler"
    /\ rec.StatusCode = NoStatus
    /\ rec' = [rec EXCEPT !.StatusCode = code]
    /\ rw' = WriteHeader(rw, code)
    /\ headerCalls' = headerCalls + 1
    /\ c_StatusCode' = code
    /\ UNCHANGED <<cpc, creq, cache, helperLog>>
    /\ UNCHANGED notCacheRespVars

\* the handler writes a part of its body: ResponseRecorder.Write
HandlerBody(kind) ==
    /\ cpc = "handler"
    /\ rec.StatusCode # NoStatus
    /\ Len(rec.Body) < MaxChunks
    /\ rec' = [rec EXCEPT !.Body = Append(@, kind)]
    /\ rw' = Write(rw, kind)
    /\ UNCHANGED <<cpc, creq, cache, headerCalls, c_StatusCode, helperLog>>
    /\ UNCHANGED notCacheRespVars

\* next(c) returns: the middleware stores the recorded response when it is
\* cacheable and writes it to the original writer (lines 220-266)
CacheStore ==
    /\ cpc = "handler"
    /\ rec.StatusCode # NoStatus
    /\ LET shouldCache == rec.StatusCode \in CacheStatusCodes /\ rec.Body # <<>>
       IN  /\ cache' = IF shouldCache
                       THEN [found |-> TRUE, Value |-> rec.Body,
                             StatusCode |-> rec.StatusCode]
                       ELSE cache
           /\ rw' = WriteBytes(WriteHeader(rw, rec.StatusCode), rec.Body)
           /\ headerCalls' = headerCalls + 1
    /\ cpc' = "done"
    /\ UNCHANGED <<creq, rec, c_StatusCode, helperLog>>
    /\ UNCHANGED notCacheRespVars

\* the request served from the cache is over
CacheHitDone ==
    /\ cpc = "hit"
    /\ cpc' = "done"
    /\ UNCHANGED <<creq, rec, cache, headerCalls>>
    /\ UNCHANGED notCacheVars

CacheNext ==
    \/ CacheRequest
    \/ \E code \in ResponseCodes : HandlerStatus(code)
    \/ \E kind \in ChunkKinds : HandlerBody(kind)
    \/ CacheStore
    \/ CacheHitDone

----------------------------------------------------------------------------
(* Specifications *)

\* the components a specification does not exercise, as constructed
RouterIdle  == RouterInit
TimeoutIdle == TimeoutInit /\ handlerKind = "returns" /\ ~recoveryInner
ChainIdle   == ChainInit /\ growth = 0
FnIdle      == dbl = [arg |-> defaultTimeout, result |-> NoResult]
AppIdle     == AppInit
RespIdle    == RespInit
ReadIdle    == ReadInit
CacheIdle   == CacheInit
StoreIdle   ==
    /\ items = <<>>
    /\ sgor = <<>>
    /\ sclock = 0
    /\ made = 0
    /\ removed = NoRemoval
BucketIdle  ==
    /\ bclock = 0
    /\ bucket = NewTokenBucket(limiterCapacity, limiterRate, 0)
    /\ taken = NoTake

\* The router alone: no request is in the Timeout middleware.
InitRouter == RouterInit /\ TimeoutIdle /\ ChainIdle /\ FnIdle /\ CtxIdle /\ LimiterIdle
    /\ AppIdle
    /\ RespIdle
    /\ ReadIdle
    /\ BucketIdle
    /\ StoreIdle
    /\ CacheIdle

SpecRouter == InitRouter /\ [][RouterNext]_vars

\* The router with patterns and paths in every written form.
InitNorm == InitRouter

SpecNorm == InitNorm /\ [][NormNext]_vars

\* The router with routes under two methods and requests under three.
InitMethods == InitRouter

SpecMethods == InitMethods /\ [][MethodNext]_vars

\* One request running through Recovery and Timeout.
InitTimeout == RouterIdle /\ TimeoutInit /\ ChainIdle /\ FnIdle /\ CtxIdle /\ LimiterIdle
    /\ AppIdle
    /\ RespIdle
    /\ ReadIdle
    /\ BucketIdle
    /\ StoreIdle
    /\ CacheIdle

\* The MiddlewareManager: registrations and resolutions in any order.
InitChain == RouterIdle /\ TimeoutIdle /\ ChainInit /\ FnIdle /\ CtxIdle /\ LimiterIdle
    /\ AppIdle
    /\ RespIdle
    /\ ReadIdle
    /\ BucketIdle
    /\ StoreIdle
    /\ CacheIdle

\* doubleTimeout called with each argument.
InitDouble == RouterIdle /\ TimeoutIdle /\ ChainIdle /\ DoubleInit /\ CtxIdle /\ LimiterIdle
    /\ AppIdle
    /\ RespIdle
    /\ ReadIdle
    /\ BucketIdle
    /\ StoreIdle
    /\ CacheIdle

\* One call of a typed getter on a Context holding any store.
InitGetters == RouterIdle /\ TimeoutIdle /\ ChainIdle /\ FnIdle /\ GettersInit /\ LimiterIdle
    /\ AppIdle
    /\ RespIdle
    /\ ReadIdle
    /\ BucketIdle
    /\ StoreIdle
    /\ CacheIdle

SpecGetters == InitGetters /\ [][GettersNext]_vars

\* Goroutines calling Set and Get on one key of one Context, in any
\* interleaving of their steps.
InitConc == RouterIdle /\ TimeoutIdle /\ ChainIdle /\ FnIdle /\ ConcInit /\ LimiterIdle
    /\ AppIdle
    /\ RespIdle
    /\ ReadIdle
    /\ BucketIdle
    /\ StoreIdle
    /\ CacheIdle

SpecConc == InitConc /\ [][ConcNext]_vars

\* Requests passing through the RateLimiter middleware concurrently.
InitLimiter == RouterIdle /\ TimeoutIdle /\ ChainIdle /\ FnIdle /\ CtxIdle /\ LimiterInit
    /\ AppIdle
    /\ RespIdle
    /\ ReadIdle
    /\ BucketIdle
    /\ StoreIdle
    /\ CacheIdle

SpecLimiter == InitLimiter /\ [][LimiterNext]_vars

\* Response helpers called on the Context of one request.
InitResp == RouterIdle /\ TimeoutIdle /\ ChainIdle /\ FnIdle /\ CtxIdle /\ LimiterIdle
    /\ AppIdle
    /\ RespInit
    /\ ReadIdle
    /\ BucketIdle
    /\ StoreIdle
    /\ CacheIdle

\* Take called any number of times on one TokenBucket as time passes.
InitBucket == RouterIdle /\ TimeoutIdle /\ ChainIdle /\ FnIdle /\ CtxIdle /\ LimiterIdle
    /\ AppIdle
    /\ RespIdle
    /\ ReadIdle
    /\ BucketInit
    /\ StoreIdle
    /\ CacheIdle

\* Goroutines calling Get, Set and Delete of one MemoryStore on one key, in
\* any interleaving of their critical sections, as time passes.
InitStore == RouterIdle /\ TimeoutIdle /\ ChainIdle /\ FnIdle /\ CtxIdle /\ LimiterIdle
    /\ AppIdle
    /\ RespIdle
    /\ ReadIdle
    /\ BucketIdle
    /\ StoreInit
    /\ CacheIdle

SpecStore == InitStore /\ [][StoreNext]_vars

\* Requests for one cache key passing through ResponseCache one after the
\* other.
InitCache == InitRouter

SpecCache == InitCache /\ [][CacheNext]_vars

SpecBucket == InitBucket /\ [][BucketNext]_vars

SpecResp == InitResp /\ [][RespNext]_vars

SpecDouble == InitDouble /\ [][DoubleNext]_vars

SpecChain == InitChain /\ [][ChainNext]_vars

\* The MiddlewareManager: UseRoute called with any method name.
InitRouteUse == InitChain

SpecRouteUse == InitRouteUse /\ [][RouteUseNext]_vars

\* Decorators and routes registered in any order, at the MiddlewareManager
\* and at the App, and requests for the registered routes in between.
InitRegister == InitChain

SpecRegister == InitRegister /\ [][RegisterNext]_vars

SpecTimeout == InitTimeout /\ [][TimeoutNext]_vars

\* One request in the Timeout middleware, the handler's return and the
\* send on done being separate steps of the attempt's goroutine.
InitTimeoutSend == InitTimeout

SpecTimeoutSend == InitTimeoutSend /\ [][TimeoutSendNext]_vars

\* One request in the Timeout middleware, its handlers reading the token.
InitTimeoutRead == InitTimeout

SpecTimeoutRead == InitTimeoutRead /\ [][TimeoutReadNext]_vars

\* The same, the middleware's goroutine being scheduled whenever it can take
\* a step and the clock advancing while it waits, so that every attempt's
\* timer fires.  Nothing is assumed of the handler's goroutines.
InitTimeoutLive == InitTimeout

SpecTimeoutLive ==
    /\ InitTimeoutLive
    /\ [][TimeoutNext]_vars
    /\ WF_vars(StartAttempt)
    /\ WF_vars(SelectDone \/ SelectTimeout)
    /\ WF_vars(Tick)

----------------------------------------------------------------------------
(* Properties of the Timeout middleware *)

rootLive == ~tokens[0].cancelled

\* the time attempt a's token allows it
budget(a) == tokens[att[a].tok].deadline - att[a].startedAt

TimeoutResponse ==
    [status |-> StatusGatewayTimeout, code |-> "TIMEOUT", by |-> "timeout"]

\* C1: once a response has been written for the request, no further write
\* to that response occurs (at most one write per request).
C1_NoSecondWrite == rootLive => Len(writes) <= 1

\* C2: a handler that never completes gets exactly maxAttempts attempts whose
\* timeouts are 10, 20 and 40 units, and then exactly one response, the 504
\* with code TIMEOUT, is written.
C2_NeverCompletes ==
    (handlerKind = "never" /\ pc = "returned" /\ rootLive) =>
        /\ Len(att) = defaultMaxRetries
        /\ \A a \in 1..Len(att) : budget(a) = defaultTimeout * 2^(a - 1)
        /\ writes = <<TimeoutResponse>>

\* C3: a handler that returns before the first attempt's token is done is
\* run exactly once: no second attempt is launched and the middleware
\* writes nothing, so only the handler's own response is on the writer.
C3_OneAttempt ==
    (Len(att) >= 1 /\ att[1].state = "returned" /\ att[1].inTime) =>
        /\ Len(att) = 1
        /\ retry = 0
        /\ \A i \in 1..Len(writes) : writes[i].by = "handler"
        /\ Len(writes) = (IF att[1].wrote THEN 1 ELSE 0)

C3_Witness ==
    /\ pc = "returned"
    /\ Len(att) = 1 /\ att[1].state = "returned" /\ att[1].inTime
    /\ now > 0
    /\ writes = <<[status |-> StatusOK, code |-> "", by |-> "handler"]>>

\* C4: every attempt's token is derived from the request's parent token, and
\* is live when the attempt begins if the request's token is live.
C4_TokenFromParent ==
    \A a \in 1..Len(att) :
        att[a].rootLiveAtStart =>
            /\ tokens[att[a].tok].parent = 0
            /\ att[a].liveAtStart

\* C5: when the handler panics, exactly one response is written, the 500
\* with code INTERNAL_ERROR.
C5_PanicOne500 ==
    (handlerKind = "panics" /\ pc = "returned" /\ rootLive
       /\ \A a \in 1..Len(att) : att[a].state = "panicked") =>
        /\ Len(writes) = 1
        /\ writes[1].status = StatusInternalServerError
        /\ writes[1].code = "INTERNAL_ERROR"

\* the writes the Timeout middleware itself made
TimeoutWrites == {i \in 1..Len(writes) : writes[i].by = "timeout"}

\* C23: the Timeout middleware writes nothing when an attempt other than
\* the last one times out: its 504 is on the writer only once the attempt
\* counter has reached the maximum, and it is written once.
C23_NoIntermediateTimeoutResponse ==
    /\ retry < defaultMaxRetries => TimeoutWrites = {}
    /\ TimeoutWrites # {} => pc = "returned"
    /\ Cardinality(TimeoutWrites) <= 1
    /\ \A i \in TimeoutWrites : writes[i] = TimeoutResponse

\* two attempts have timed out, the third is waited for, the client has not
\* gone away and nothing has been written
C23_Witness ==
    /\ retry = 2 /\ pc = "select" /\ rootLive
    /\ handlerKind = "never"
    /\ writes = <<>>

Completed ==
    /\ pc = "returned"
    /\ retry < defaultMaxRetries
    /\ att[cur].state \in {"returned", "panicked"}
    /\ TimeoutWrites = {}

\* the middleware returned after the last of maxAttempts attempts was given
\* up, and wrote the 504
TimedOutExhausted ==
    /\ pc = "returned"
    /\ retry = defaultMaxRetries /\ Len(att) = defaultMaxRetries
    /\ \A a \in 1..Len(att) : ctxDone(tokens, att[a].tok, now)
    /\ Cardinality(TimeoutWrites) = 1
    /\ \A i \in TimeoutWrites : writes[i] = TimeoutResponse

\* C30: with every attempt's timer firing, each execution of the Timeout
\* middleware returns, and when it has returned it is in exactly one of the
\* two terminal states Completed and TimedOut-Exhausted.
C30_TerminatesInOneOfTwo ==
    /\ <>(pc = "returned")
    /\ [](pc = "returned" => (Completed /\ ~TimedOutExhausted)
                                \/ (TimedOutExhausted /\ ~Completed))

\* a handler that never returns was given up three times while the client
\* stayed
C30_Witness ==
    /\ TimedOutExhausted /\ rootLive
    /\ handlerKind = "never"
    /\ now >= defaultTimeout

----------------------------------------------------------------------------
(* Properties of the router *)

IsParamSeg(seg) == Len(seg) >= 1 /\ seg[1] = ":"
IsWildSeg(seg)  == seg = <<"*">>
IsStaticSeg(seg) == ~IsParamSeg(seg) /\ ~IsWildSeg(seg)

SegMatch(pseg, seg) == IsParamSeg(pseg) \/ pseg = seg

\* the path segments match the pattern segments: static segments equal, a
\* parameter segment matches one segment, a trailing wildcard matches the
\* one or more segments that remain
StructMatch(psegs, segs) ==
    LET n == Len(psegs)
    IN  IF n > 0 /\ IsWildSeg(psegs[n])
        THEN /\ Len(segs) >= n
             /\ \A k \in 1..(n - 1) : SegMatch(psegs[k], segs[k])
        ELSE /\ Len(segs) = n
             /\ \A k \in 1..n : SegMatch(psegs[k], segs[k])

RoutesOf(method) == {i \in 1..Len(routes) : routes[i].method = method}

\* the handler of the last registration of the pattern of route i
LastHandler(i) ==
    LET same == {j \in RoutesOf(routes[i].method) : routes[j].segs = routes[i].segs}
    IN  routes[CHOOSE j \in same : \A k \in same : k <= j].handler

\* route j has a parameter segment where the static route i has a static one
\* and is otherwise the same pattern
ParamAtSamePosition(i, j) ==
    /\ Len(routes[i].segs) >= 1
    /\ \A k \in 1..Len(routes[i].segs) : IsStaticSeg(routes[i].segs[k])
    /\ routes[j].method = routes[i].method
    /\ Len(routes[j].segs) = Len(routes[i].segs)
    /\ \E k \in 1..Len(routes[j].segs) : IsParamSeg(routes[j].segs[k])
    /\ \A k \in 1..Len(routes[j].segs) :
          IsParamSeg(routes[j].segs[k]) \/ routes[j].segs[k] = routes[i].segs[k]

\* C6: with a static route and a parameter route registered for the same
\* method at the same position, a request for the static route's path runs
\* the static route's handler, whatever the registration order.
C6_StaticBeforeParam ==
    req.sent =>
        \A i, j \in RoutesOf(req.Method) :
            (ParamAtSamePosition(i, j) /\ req.segs = routes[i].segs) =>
                found /\ handled = LastHandler(i)

C6_Witness ==
    /\ req.sent /\ found
    /\ \E i, j \in RoutesOf(req.Method) :
          /\ j < i
          /\ ParamAtSamePosition(i, j)
          /\ req.segs = routes[i].segs
          /\ handled = routes[i].handler

\* the parts HandleRequest splits the request path into
PartsOf(segs) == IF segs = <<>> THEN << <<>> >> ELSE segs

\* the trie node at path n accepts the parts: each key is the part itself or
\* the parameter key, or the last key is the wildcard and parts remain for it
NodeAccepts(n, parts) ==
    \/ /\ Len(n) = Len(parts)
       /\ \A k \in 1..Len(n) : n[k] = parts[k] \/ n[k] = <<":">>
    \/ /\ Len(n) >= 1 /\ Len(n) <= Len(parts)
       /\ n[Len(n)] = <<"*">>
       /\ \A k \in 1..(Len(n) - 1) : n[k] = parts[k] \/ n[k] = <<":">>

Accepting(t, parts) == {n \in DOMAIN t : t[n].handler # Nil /\ NodeAccepts(n, parts)}

\* C7: matching is exhaustive: a request is not found only when no node
\* with a handler can be reached through exact, parameter or wildcard
\* children; a static child that dead-ends does not hide a parameter or
\* wildcard alternative.
C7_Backtracking ==
    (req.sent /\ req.Method \in DOMAIN trees) =>
        LET acc == Accepting(trees[req.Method], PartsOf(req.segs))
        IN  /\ found <=> acc # {}
            /\ found => \E n \in acc : trees[req.Method][n].handler = handled

C7_Witness ==
    /\ req.sent /\ found /\ Len(req.segs) = 2
    /\ <<req.segs[1]>> \in DOMAIN trees[req.Method]
    /\ \A n \in Accepting(trees[req.Method], req.segs) : n[1] = <<":">>

\* C8: the router finds a handler iff the path structurally matches a
\* pattern registered for the method.
C8_FoundIffStructMatch ==
    req.sent =>
        (found <=> \E i \in RoutesOf(req.Method) : StructMatch(routes[i].segs, req.segs))

\* C9: on a match, Params binds each parameter name of the matched pattern
\* to the path segment at the same position.
C9_ParamsOfMatchedPattern ==
    (req.sent /\ found /\ StructMatch(routes[handled].segs, req.segs)) =>
        LET psegs == routes[handled].segs
        IN  \A k \in 1..Len(psegs) :
              (/\ IsParamSeg(psegs[k])
               /\ \A l \in (k + 1)..Len(psegs) : psegs[l] # psegs[k]) =>
                  /\ Tail(psegs[k]) \in DOMAIN c_Params
                  /\ c_Params[Tail(psegs[k])] = req.segs[k]

\* C10: a route ending in the wildcard matches every path made of the
\* route's prefix and one or more further segments, and, when no other
\* registered pattern matches the path, it is the wildcard route's handler
\* that runs.
C10_WildcardConsumesRest ==
    req.sent =>
        \A i \in RoutesOf(req.Method) :
            (/\ Len(routes[i].segs) >= 1
             /\ IsWildSeg(routes[i].segs[Len(routes[i].segs)])
             /\ StructMatch(routes[i].segs, req.segs)) =>
                /\ found
                /\ (\A j \in RoutesOf(req.Method) :
                       StructMatch(routes[j].segs, req.segs) => routes[j].segs = routes[i].segs)
                     => handled = LastHandler(i)

C10_Witness ==
    /\ req.sent /\ found
    /\ \E i \in RoutesOf(req.Method) :
          /\ Len(routes[i].segs) >= 1
          /\ IsWildSeg(routes[i].segs[Len(routes[i].segs)])
          /\ Len(req.segs) >= Len(routes[i].segs) + 1
          /\ StructMatch(routes[i].segs, req.segs)
          /\ handled = routes[i].handler


\* C11: once a handler is registered for the root pattern "/" under a
\* method, a request for "/" with that method is found and runs the handler
\* of the last such registration.
C11_RootRoute ==
    \A i \in RoutesOf(req.Method) :
        (req.sent /\ req.segs = <<>> /\ routes[i].segs = <<>>)
            => (found /\ handled = LastHandler(i))


\* the result of HandleRequest for the pattern string of route i itself
ResultForPattern(i) == handleRequest(trees, routes[i].method, routes[i].pattern, <<>>)

SameResult(r) == found = r.ret /\ handled = r.handler /\ c_Params = r.Params

RECURSIVE TreesOf(_, _)
TreesOf(rs, method) ==
    IF rs = <<>> THEN NewRouter
    ELSE LET r == rs[Len(rs)]
             ts == TreesOf(SubSeq(rs, 1, Len(rs) - 1), method)
         IN  IF r.method = method
             THEN addRoute(ts, r.method, r.pattern, r.handler) ELSE ts

\* C13: routes of different methods are independent: a request under a
\* method no route was registered for matches nothing, a matched handler was
\* registered under the request's method, and the result of a request is the
\* one a router holding only the routes of that method gives.
C13_MethodsIndependent ==
    req.sent =>
        /\ (RoutesOf(req.Method) = {} => ~found)
        /\ (found => handled \in 1..Len(routes)
                     /\ routes[handled].method = req.Method)
        /\ SameResult(handleRequest(TreesOf(routes, req.Method), req.Method,
                                    req.Path, <<>>))

\* a path that a route of another method matches is requested under a
\* method without routes
C13_Witness ==
    /\ req.sent /\ ~found /\ req.segs # <<>>
    /\ RoutesOf(req.Method) = {}
    /\ \E i \in 1..Len(routes) : StructMatch(routes[i].segs, req.segs)


\* the nodes of the tree of method m that hold a handler
HandlerNodes(m) == {n \in DOMAIN trees[m] : trees[m][n].handler # Nil}

\* C14: registering a (method, normalized pattern) again replaces the
\* handler: no two nodes of a method's tree hold a handler for the same
\* normalized pattern, the handler a node holds is the one of the last
\* registration of the node's pattern under that method, and the latest
\* registration of a pattern of at least one segment is in the tree.
C14_LastRegistrationWins ==
    /\ \A m \in DOMAIN trees : \A n \in HandlerNodes(m) :
          LET nd == trees[m][n]
          IN  /\ nd.handler \in 1..Len(routes)
              /\ routes[nd.handler].method = m
              /\ PathOf(routes[nd.handler].segs) = nd.pattern
              /\ \A j \in RoutesOf(m) :
                    PathOf(routes[j].segs) = nd.pattern => j <= nd.handler
              /\ \A n2 \in HandlerNodes(m) :
                    trees[m][n2].pattern = nd.pattern => n2 = n
    /\ (routes # <<>> /\ routes[Len(routes)].segs # <<>>) =>
          LET last == routes[Len(routes)]
          IN  \E n \in HandlerNodes(last.method) :
                 /\ trees[last.method][n].pattern = PathOf(last.segs)
                 /\ trees[last.method][n].handler = last.handler

\* a pattern registered twice, in two written forms, and then requested
C14_Witness ==
    /\ req.sent /\ found
    /\ \E i, j \in 1..Len(routes) :
          /\ i < j
          /\ routes[i].segs = routes[j].segs
          /\ routes[i].pattern # routes[j].pattern
          /\ handled = routes[j].handler


----------------------------------------------------------------------------
(* Properties of the middleware chains *)

Resolutions == 1..Len(resolved)

Reverse(q) == [k \in 1..Len(q) |-> q[Len(q) + 1 - k]]

Events(kind, ds) == [k \in 1..Len(ds) |-> <<kind, ds[k]>>]

\* the decorators registered by the first k Use calls that satisfy Test, in
\* registration order
Registered_(k, Test(_)) ==
    LET us == SelectSeq(SubSeq(uses, 1, k), Test)
    IN  [i \in 1..Len(us) |-> us[i].d]

IsGlobalUse(u) == u.tier = "global"

GlobalAt(k) == Registered_(k, IsGlobalUse)

GroupAt(k, prefix) ==
    LET Test(u) == u.tier = "group" /\ u.key = prefix
    IN  Registered_(k, Test)

RouteAt(k, method, path) ==
    LET Test(u) == u.tier = "route" /\ u.method = method /\ u.key = path
    IN  Registered_(k, Test)

\* C15: Apply makes the first decorator of the chain the outermost: a call
\* of the handler built from the chain [m1..mn] runs the pre-logic of m1,
\* ..., mn, then the handler, then the post-logic of mn, ..., m1.
C15_FirstIsOutermost ==
    \A r \in Resolutions :
        resolved[r].trace =
            Events("pre", resolved[r].elems) \o << <<"handler", Nil>> >>
                \o Events("post", Reverse(resolved[r].elems))

\* a handler built from a chain of three decorators has run
C15_Witness ==
    \E r \in Resolutions :
        /\ Len(resolved[r].elems) = 3
        /\ resolved[r].trace[1] = <<"pre", resolved[r].elems[1]>>
        /\ resolved[r].trace[7] = <<"post", resolved[r].elems[1]>>

\* the decorators whose pre-logic a call ran, in the order it ran them
PreOrder(trace) ==
    LET IsPre(e) == e[1] = "pre"
        pres == SelectSeq(trace, IsPre)
    IN  [k \in 1..Len(pres) |-> pres[k][2]]

\* the prefix matches the path on a segment boundary
SegPrefix(prefix, path) ==
    \/ prefix = <<"/">>
    \/ path = prefix
    \/ HasPrefix(path, prefix \o <<"/">>)

Increasing(q) == \A i, j \in 1..Len(q) : i < j => q[i] < q[j]

C17_SameOrderEveryTime ==
    \A r1, r2 \in Resolutions :
        (/\ resolved[r1].method = resolved[r2].method
         /\ resolved[r1].path = resolved[r2].path
         /\ resolved[r1].at = resolved[r2].at)
            => resolved[r1].trace = resolved[r2].trace

\* the Use call that first registered the prefix
FirstUseOf(prefix) ==
    CHOOSE d \in 1..Len(uses) :
        /\ uses[d].tier = "group" /\ uses[d].key = prefix
        /\ \A d2 \in 1..(d - 1) : ~(uses[d2].tier = "group" /\ uses[d2].key = prefix)

\* C18: when the chains of several group prefixes are in an effective chain,
\* they are there in the order in which the prefixes were first registered.
C18_GroupsInPrefixRegistrationOrder ==
    \A r \in Resolutions :
        LET e == resolved[r].elems
        IN  \A i, j \in 1..Len(e) :
                (/\ uses[e[i]].tier = "group" /\ uses[e[j]].tier = "group"
                 /\ FirstUseOf(uses[e[i]].key) < FirstUseOf(uses[e[j]].key))
                    => i < j

\* C19: a group's decorators are in the effective chain of a path only when
\* the group's prefix matches the path on a segment boundary.
C19_GroupOnSegmentBoundary ==
    \A r \in Resolutions :
        LET e == resolved[r].elems
        IN  \A i \in 1..Len(e) :
                uses[e[i]].tier = "group" => SegPrefix(uses[e[i]].key, resolved[r].path)

\* the chain the registry holds for a map entry, <<>> if it has none
HeldBy(chains, key) ==
    IF key \in DOMAIN chains THEN Elements(heap, chains[key].middlewares) ELSE <<>>

\* C20: the chain GetMiddlewareChain builds on a clone is independent of the
\* registry's chains: the global, group and route chains hold exactly the
\* decorators registered on them, in order, whatever was resolved, and a
\* chain that was returned keeps its decorators whatever is registered
\* afterwards.
C20_CloneIndependent ==
    /\ Elements(heap, mm.globalChain.middlewares) = GlobalAt(Len(uses))
    /\ \A prefix \in GroupPrefixes :
          HeldBy(mm.groupChains, prefix) = GroupAt(Len(uses), prefix)
    /\ \A method \in Methods, path \in ChainPaths :
          (IF method \in DOMAIN mm.routeChains
           THEN HeldBy(mm.routeChains[method], path) ELSE <<>>)
              = RouteAt(Len(uses), method, path)
    /\ \A r \in Resolutions :
          Elements(heap, resolved[r].chain.middlewares) = resolved[r].elems

\* a chain was built on a clone of a global chain with spare capacity, and
\* a decorator was registered globally afterwards
C20_Witness ==
    /\ growth = 1
    /\ \E r \in Resolutions :
          /\ Len(resolved[r].elems) >= 2
          /\ uses[resolved[r].elems[1]].tier = "global"
          /\ resolved[r].at < Len(uses)
          /\ uses[Len(uses)].tier = "global"


----------------------------------------------------------------------------
(* Properties of doubleTimeout *)

\* C22: doubleTimeout(t) never exceeds the maximum of 60 seconds, and it is
\* 2*t whenever 2*t does not exceed the maximum.
C22_DoubledWithinMax ==
    dbl.result # NoResult =>
        /\ dbl.result <= maxTimeout
        /\ (2 * dbl.arg <= maxTimeout => dbl.result = 2 * dbl.arg)


----------------------------------------------------------------------------
(* Properties of a request that matches no route *)

\* C28: when no route matches, HandleRequest returns false, invokes no
\* handler and leaves the Params of the (new) Context as they were, empty;
\* Params are written only when a match is found.
C28_NoMatchNoParams ==
    req.sent =>
        /\ (~found => handled = Nil /\ c_Params = <<>>)
        /\ (c_Params # <<>> => found /\ handled # Nil)

\* a request of two segments is not found although a route begins with a
\* parameter segment, which the search tried
C28_Witness ==
    /\ req.sent /\ ~found
    /\ Len(req.segs) = 2
    /\ \E i \in RoutesOf(req.Method) :
          /\ Len(routes[i].segs) = 2
          /\ IsParamSeg(routes[i].segs[1])
          /\ IsStaticSeg(routes[i].segs[2])
          /\ routes[i].segs[2] # req.segs[2]


----------------------------------------------------------------------------
(* Properties of the Context's store *)

TypeOf(fn) ==
    CASE fn = "GetString" -> "string"
      [] fn = "GetInt" -> "int"
      [] fn = "GetBool" -> "bool"

MismatchOf(fn) ==
    CASE fn = "GetString" -> "value is not a string"
      [] fn = "GetInt" -> "value is not an integer"
      [] fn = "GetBool" -> "value is not a boolean"

\* C25: a typed getter returns the stored value and no error exactly when
\* the key is present with a value of the requested type, the error `key
\* not found' when the key is absent and a type-mismatch error when the
\* value has another type; it returns, and the store is as before.
C25_TypedGetters ==
    got # NoCall =>
        LET present == got.key \in DOMAIN got.before
            typed == present /\ got.before[got.key].typ = TypeOf(got.fn)
        IN  /\ (got.err = "nil") <=> typed
            /\ typed => got.val = got.before[got.key].dat
            /\ ~present => got.err = "key not found"
            /\ (present /\ ~typed) => got.err = MismatchOf(got.fn) /\ got.val = Zero
            /\ keys = got.before
            /\ mutex = Unlocked

\* GetInt was called on a key that holds a float64
C25_Witness ==
    /\ got.fn = "GetInt"
    /\ got.key \in DOMAIN keys
    /\ keys[got.key].typ = "float64"
    /\ got.err = "value is not an integer"


Setters == {p \in Goroutines : gor[p].op = "Set"}

\* the value is one that some Set call was given
Whole(res) == \E q \in Setters : res.typ = ValueOf(q).typ /\ res.dat = ValueOf(q).dat

\* C24: under any interleaving of Set and Get calls on one key, a Get that
\* has returned found the key absent, and then no Set had returned when it
\* took the lock, or got the whole value of a Set that had taken the lock;
\* a Get that took the lock after all Sets had returned got the value of
\* the Set that took the lock last.
C24_GetSeesWholeValues ==
    \A p \in Goroutines :
        (gor[p].op = "Get" /\ gor[p].pc = "done") =>
            LET res == gor[p].res
            IN  /\ ~res.exists => gor[p].setsDone = 0 /\ res.dat = Zero
                /\ res.exists => Whole(res)
                /\ (Setters # {} /\ gor[p].setsDone = Cardinality(Setters)) =>
                      /\ res.exists
                      /\ res.dat = ValueOf(lockLog[Len(lockLog)]).dat
                      /\ res.typ = ValueOf(lockLog[Len(lockLog)]).typ

\* two Sets, the first to take the lock not being the last goroutine, and a
\* Get that began after both had returned
C24_Witness ==
    \E p \in Goroutines :
        /\ gor[p].op = "Get" /\ gor[p].pc = "done"
        /\ Len(lockLog) = 2 /\ lockLog[1] > lockLog[2]
        /\ gor[p].setsDone = 2
        /\ gor[p].res.dat = lockLog[2]


----------------------------------------------------------------------------
(* Properties of the rate limiter *)

\* the requests that hold a bucket
WithBucket == {p \in LimiterRequests : lreq[p].bucket # NoBucket}

\* C26: there is one token bucket per client identity: the requests of one
\* identity all hold the same bucket, and the bucket stored for an identity
\* is never replaced.
C26_OneBucketPerIdentity ==
    /\ \A p, q \in WithBucket : lreq[p].ip = lreq[q].ip => lreq[p].bucket = lreq[q].bucket
    /\ \A i, j \in 1..Len(storeLog) : storeLog[i].ip = storeLog[j].ip => i = j
    /\ \A i \in 1..Len(storeLog) :
          storeLog[i].ip \in DOMAIN buckets
              /\ buckets[storeLog[i].ip] = storeLog[i].bucket

----------------------------------------------------------------------------
\* C27: UseRoute called with a method name that is not a supported HTTP
\* method is dropped: the registry's route chains are the same after the
\* call as before it.
C27_UnsupportedMethodDropped ==
    [][\A method \in UseMethods \ httpMethods, path \in ChainPaths :
          UseRoute(method, path) => mm'.routeChains = mm.routeChains]_vars

----------------------------------------------------------------------------
\* the decorators whose pre-logic a call ran
Ran(trace) == {trace[k][2] : k \in {j \in 1..Len(trace) : trace[j][1] = "pre"}}

\* the Use call u registers for the route (method, path)
AppliesTo(u, method, path) ==
    \/ u.tier = "global"
    \/ u.tier = "group" /\ (u.key = <<"/">> \/ HasPrefix(path, u.key))
    \/ u.tier = "route" /\ u.method = method /\ u.key = path

\* C21: the decorated handler of a route is fixed when the route is
\* registered: a call of it runs every decorator registered for the route
\* before that moment, and no decorator registered afterwards, at whatever
\* level.
C21_FixedAtRegistration ==
    /\ served.kind = "registry" =>
          LET r == resolved[served.route]
          IN  /\ served.trace = r.trace
              /\ Ran(served.trace) =
                    {d \in 1..r.at : AppliesTo(uses[d], r.method, r.path)}
    /\ served.kind = "app" =>
          LET m == mux[served.route]
          IN  Ran(served.trace) = 1..m.at

\* a call of a handler built when one decorator applied to the route, made
\* after another was registered for it
C21_Witness ==
    /\ served.kind = "registry"
    /\ LET r == resolved[served.route]
       IN  /\ Ran(served.trace) # {}
           /\ \E d \in (r.at + 1)..Len(uses) :
                 AppliesTo(uses[d], r.method, r.path)

----------------------------------------------------------------------------
\* C31: when the Timeout middleware has returned, by the done path or by
\* the timeout path, the token of every attempt it started has been
\* cancelled.
C31_TokensReleased ==
    pc = "returned" => \A a \in 1..Len(att) : tokens[att[a].tok].cancelled

\* the middleware has returned after more than one attempt
C31_Witness ==
    /\ pc = "returned"
    /\ Len(att) >= 2
    /\ \A a \in 1..Len(att) : tokens[att[a].tok].cancelled

----------------------------------------------------------------------------
\* the nodes of the tries other than the roots, as <<method, node path>>
ChildNodes ==
    {mp \in UNION {{<<m, n>> : n \in DOMAIN trees[m]} : m \in DOMAIN trees} :
        mp[2] # <<>>}

\* the key a node is stored under in its parent's children
KeyOf(n) == n[Len(n)]

\* C32: in every trie that AddRoute calls build, no node is both a
\* parameter node and a wildcard node, every parameter node is stored
\* under the key ":" whatever its parameter name, and every wildcard node
\* is stored under the key "*".
C32_NodeKinds ==
    \A mp \in ChildNodes :
        LET node == trees[mp[1]][mp[2]]
        IN  /\ ~(node.isParameter /\ node.isWildcard)
            /\ node.isParameter => KeyOf(mp[2]) = <<":">>
            /\ node.isWildcard => KeyOf(mp[2]) = <<"*">>

\* a trie holding a named parameter node and a wildcard node
C32_Witness ==
    /\ \E mp \in ChildNodes :
          trees[mp[1]][mp[2]].isParameter /\ trees[mp[1]][mp[2]].paramName # <<>>
    /\ \E mp \in ChildNodes : trees[mp[1]][mp[2]].isWildcard

----------------------------------------------------------------------------
\* C33: JSON, String and HTML deliver their Content-Type with the
\* response: after the first helper called on a Context, the headers sent
\* to the client hold the Content-Type that helper sets.
C33_ContentTypeDelivered ==
    (Len(helperLog) >= 1 /\ helperLog[1].helper \in {"JSON", "String", "HTML"})
        => /\ "Content-Type" \in DOMAIN rw.sent
           /\ rw.sent["Content-Type"] = helperLog[1].type

----------------------------------------------------------------------------
\* the positions of the node path n that are named parameter nodes of t
ParamPositions(t, n) ==
    {k \in 1..Len(n) : n[k] = <<":">> /\ t[SubSeq(n, 1, k)].paramName # <<>>}

\* what matching the parts along the node path n captures: each parameter
\* node's name bound to the part at its position, the last one winning
Captures(t, n, parts) ==
    LET pos == ParamPositions(t, n)
    IN  [name \in {t[SubSeq(n, 1, k)].paramName : k \in pos} |->
            LET k == CHOOSE j \in pos :
                        /\ t[SubSeq(n, 1, j)].paramName = name
                        /\ \A l \in pos :
                              t[SubSeq(n, 1, l)].paramName = name => l <= j
            IN  parts[k]]

\* C34: when a match succeeds, the params written to the Context are the
\* captures of the parameter nodes on the matched route's own path and
\* nothing else: no value recorded by a parameter branch that was tried
\* and abandoned is among them.
C34_OnlyOwnCaptures ==
    (req.sent /\ found) =>
        LET t == trees[req.Method]
            parts == PartsOf(req.segs)
        IN  \E n \in Accepting(t, parts) :
                /\ t[n].handler = handled
                /\ c_Params = Captures(t, n, parts)

----------------------------------------------------------------------------
\* C35: a handler that reads the Context's token obtains the token the
\* Timeout middleware created for the attempt it runs in, also when it is
\* an abandoned attempt and the middleware has started the next one.
C35_OwnToken ==
    observed # NoRead => observed.tok = att[observed.attempt].tok

----------------------------------------------------------------------------
----------------------------------------------------------------------------
\* the tokens a bucket holds at a time once refilled and capped
Available(b, time) ==
    LET refilled == b.tokens + (time - b.lastRefill) * b.rate
    IN  IF refilled > b.capacity THEN b.capacity ELSE refilled

----------------------------------------------------------------------------
\* C38: the deletion Get performs for an expired key removes only the
\* expired item that Get observed, never a live item that a concurrent Set
\* stored for the key in between.
C38_GetRemovesOnlyExpired ==
    removed.called => (removed.item = removed.saw /\ ~removed.live)

----------------------------------------------------------------------------
\* C39: on a cache miss the handler's response reaches the client exactly
\* once: the status is written once and the bytes the underlying writer
\* received are the bytes the handler wrote, which are also the bytes
\* stored for a later hit.
C39_DeliveredOnce ==
    (cpc = "done" /\ rec.StatusCode # NoStatus) =>
        /\ headerCalls = 1
        /\ rw.body = rec.Body
        /\ (rec.StatusCode \in CacheStatusCodes /\ rec.Body # <<>>)
              => (cache.found /\ cache.Value = rec.Body)

====
